---- MODULE Spec2Model ----
(***************************************************************************)
(* A model of python-searchquery: the search-string grammar                *)
(* (django_searchquery/parser.py), the field registry and the predicate    *)
(* compiler (searchquery/basesearch.py, searchquery/django/searchfields.py)*)
(* and the value helpers (django_searchquery/utils.py, modifiers.py).      *)
(*                                                                         *)
(* Python strings are sequences of one-character strings; positions in a   *)
(* search string are 0-based as in pyparsing (the character at position    *)
(* loc of s is s[loc + 1]).                                                *)
(***************************************************************************)
EXTENDS Integers, Sequences, FiniteSets, TLC

(***************************************************************************)
(* Characters and strings                                                  *)
(***************************************************************************)
LowerChars == << "a","b","c","d","e","f","g","h","i","j","k","l","m",
                 "n","o","p","q","r","s","t","u","v","w","x","y","z" >>

UpperChars == << "A","B","C","D","E","F","G","H","I","J","K","L","M",
                 "N","O","P","Q","R","S","T","U","V","W","X","Y","Z" >>

DigitChars == << "0","1","2","3","4","5","6","7","8","9" >>

Range(seq) == { seq[i] : i \in 1..Len(seq) }

Max(a, b) == IF a >= b THEN a ELSE b

Min(a, b) == IF a <= b THEN a ELSE b

\* str.lower() on one character
lower_char(c) ==
  IF \E i \in 1..Len(UpperChars) : UpperChars[i] = c
    THEN LowerChars[CHOOSE i \in 1..Len(UpperChars) : UpperChars[i] = c]
    ELSE c

\* str.lower()
lower(s) == [i \in 1..Len(s) |-> lower_char(s[i])]

\* s[a:b] of Python (0-based, b exclusive), for 0 <= a <= b <= len(s)
Slice(s, a, b) == [i \in 1..(b - a) |-> s[a + i]]

\* sub in s (Python's substring test)
Contains(s, sub) ==
  \E i \in 0..(Len(s) - Len(sub)) : Slice(s, i, i + Len(sub)) = sub

\* s.startswith(pre)
StartsWith(s, pre) == Len(pre) <= Len(s) /\ Slice(s, 0, Len(pre)) = pre

RECURSIVE Join(_, _)
\* sep.join(parts)
Join(parts, sep) ==
  IF Len(parts) = 0 THEN << >>
  ELSE IF Len(parts) = 1 THEN parts[1]
  ELSE parts[1] \o sep \o Join(Tail(parts), sep)

RECURSIVE Concat(_)
\* ''.join(parts)
Concat(parts) == IF Len(parts) = 0 THEN << >> ELSE parts[1] \o Concat(Tail(parts))

\* str.strip() leaves nothing (the string is empty or all blanks)
IsBlank(s) == \A i \in 1..Len(s) : s[i] = " "

(***************************************************************************)
(* pyparsing.  A match m is [ok, loc, toks, vals, kids]: on success loc is *)
(* the position after the match, toks the tokens matched so far, vals the  *)
(* tokens of a value group and kids the nodes built so far; on failure loc *)
(* is the position at which the ParseException is raised (its .loc).  An   *)
(* element takes the match before it and returns the match after it, so    *)
(* that  a + b  is  b(s, a(s, m));  a failed match passes through every    *)
(* element unchanged.  Every element skips leading blanks.                 *)
(***************************************************************************)
Match(ok, loc, toks, vals, kids) ==
  [ok |-> ok, loc |-> loc, toks |-> toks, vals |-> vals, kids |-> kids]

\* the match at the start of an expression, at position loc
Start(loc) == Match(TRUE, loc, << >>, << >>, << >>)

\* the start of a group inside the match m
Fresh(m) == Match(m.ok, m.loc, << >>, << >>, << >>)

\* a ParseException at loc
Fail(loc) == Match(FALSE, loc, << >>, << >>, << >>)

\* m followed by the token text, ending at position e
Extend(m, e, text) == Match(TRUE, e, Append(m.toks, text), m.vals, m.kids)

\* a parsed group: ParseResults with a results name
Node(name, toks, vals, kids) ==
  [name |-> name, toks |-> toks, vals |-> vals, kids |-> kids]

\* string.punctuation without the backquote, which no search string here holds
Punctuation == { "!", "\"", "#", "$", "%", "&", "'", "(", ")", "*", "+", ",",
                 "-", ".", "/", ":", ";", "<", "=", ">", "?", "@", "[", "\\",
                 "]", "^", "_", "{", "|", "}", "~" }

alphanums == Range(LowerChars) \cup Range(UpperChars) \cup Range(DigitChars)

printables == alphanums \cup Punctuation

EXCLUDECHARS == { "(", ",", ")", " ", "'", "\"" }

\* the characters a Keyword may not touch (pyparsing's default: alphanums + "_$")
KeywordChars == alphanums \cup { "_", "$" }

\* the first position >= loc that holds no blank
SkipWs(s, loc) ==
  IF \E j \in loc..(Len(s) - 1) : s[j + 1] # " "
    THEN CHOOSE j \in loc..(Len(s) - 1) :
           s[j + 1] # " " /\ \A k \in loc..(j - 1) : s[k + 1] = " "
    ELSE Max(loc, Len(s))

\* the end of the longest run of characters of chars that starts at p
RunEnd(s, p, chars) ==
  IF \E j \in p..(Len(s) - 1) : s[j + 1] \notin chars
    THEN CHOOSE j \in p..(Len(s) - 1) :
           s[j + 1] \notin chars /\ \A k \in p..(j - 1) : s[k + 1] \in chars
    ELSE Max(p, Len(s))

\* the run of characters of chars from p to e, if it is not empty
WordRun(s, m, p, e) == IF e > p THEN Extend(m, e, Slice(s, p, e)) ELSE Fail(p)

WordAt(s, m, p, chars) == WordRun(s, m, p, RunEnd(s, p, chars))

\* Word(chars)
Word(s, m, chars) == IF m.ok THEN WordAt(s, m, SkipWs(s, m.loc), chars) ELSE m

LiteralAt(s, m, p, lit, keep) ==
  IF p + Len(lit) <= Len(s) /\ Slice(s, p, p + Len(lit)) = lit
    THEN (IF keep THEN Extend(m, p + Len(lit), lit)
          ELSE Match(TRUE, p + Len(lit), m.toks, m.vals, m.kids))
    ELSE Fail(p)

\* Literal(lit)
Literal(s, m, lit) == IF m.ok THEN LiteralAt(s, m, SkipWs(s, m.loc), lit, TRUE) ELSE m

\* Suppress(lit)
Suppress(s, m, lit) == IF m.ok THEN LiteralAt(s, m, SkipWs(s, m.loc), lit, FALSE) ELSE m

\* whether the keyword kw, in any letter case, stands alone at p
KeywordAt(s, p, kw) ==
  /\ p + Len(kw) <= Len(s)
  /\ lower(Slice(s, p, p + Len(kw))) = lower(kw)
  /\ (p + Len(kw) = Len(s) \/ s[p + Len(kw) + 1] \notin KeywordChars)
  /\ (p = 0 \/ s[p] \notin KeywordChars)

KeywordIf(m, p, kw, found) == IF found THEN Extend(m, p + Len(kw), kw) ELSE Fail(p)

KeywordFrom(s, m, p, kw) == KeywordIf(m, p, kw, KeywordAt(s, p, kw))

\* CaselessKeyword(kw): its token is kw as the grammar spells it
CaselessKeyword(s, m, kw) ==
  IF m.ok THEN KeywordFrom(s, m, SkipWs(s, m.loc), kw) ELSE m

RECURSIVE QuotedBody(_, _, _, _)
\* the text of a quoted string from position i on, up to the closing quote;
\* escChar = backslash keeps the character that follows it
QuotedBody(s, i, quote, acc) ==
  IF i >= Len(s) THEN [ok |-> FALSE, loc |-> i, text |-> acc]
  ELSE IF s[i + 1] = quote THEN [ok |-> TRUE, loc |-> i + 1, text |-> acc]
  ELSE IF s[i + 1] = "\\" /\ i + 1 < Len(s)
    THEN QuotedBody(s, i + 2, quote, Append(acc, s[i + 2]))
  ELSE QuotedBody(s, i + 1, quote, Append(acc, s[i + 1]))

QuotedEnd(m, p, b) == IF b.ok THEN Extend(m, b.loc, b.text) ELSE Fail(p)

QuotedAt(s, m, p, quote) ==
  IF p < Len(s) /\ s[p + 1] = quote
    THEN QuotedEnd(m, p, QuotedBody(s, p + 1, quote, << >>))
    ELSE Fail(p)

\* QuotedString(quote, escChar='\\')
QuotedString(s, m, quote) ==
  IF m.ok THEN QuotedAt(s, m, SkipWs(s, m.loc), quote) ELSE m

\* a | b: the first alternative that matches; if none does, the failure
\* furthest into the string (MatchFirst raises its maxException)
MatchFirst2(a, b) ==
  IF a.ok THEN a ELSE IF b.ok THEN b ELSE Fail(Max(a.loc, b.loc))

\* Group(inner).setResultsName(name) after m: one more node
Group(name, m, inner) ==
  IF inner.ok
    THEN Match(TRUE, inner.loc, m.toks, m.vals,
               Append(m.kids, Node(name, inner.toks, inner.vals, << >>)))
    ELSE inner

(***************************************************************************)
(* The grammar                                                             *)
(***************************************************************************)
\* Keywords (matched in any letter case)
AND == << "a", "n", "d" >>

OR == << "o", "r" >>

\* the keyword IN (a reserved word of TLA+)
INKW == << "i", "n" >>

NOT == << "n", "o", "t" >>

NOTIN == << "n", "o", "t", " ", "i", "n" >>

ORDERBY == << "o", "r", "d", "e", "r", " ", "b", "y" >>

DASH == << "-" >>

\* basicValue = Word(printables, excludeChars=EXCLUDECHARS)
basicValue(s, m) == Word(s, m, printables \ EXCLUDECHARS)

\* quoteValue = QuotedString("'") | QuotedString('"')
quoteValue(s, m) == MatchFirst2(QuotedString(s, m, "'"), QuotedString(s, m, "\""))

\* singleValue = basicValue | quoteValue
singleValue(s, m) == MatchFirst2(basicValue(s, m), quoteValue(s, m))

OperatorAt(s, m, p) ==
  IF p + 2 <= Len(s)
     /\ Slice(s, p, p + 2) \in { << "!", "=" >>, << ">", "=" >>, << "<", "=" >> }
    THEN Extend(m, p + 2, Slice(s, p, p + 2))
  ELSE IF p + 1 <= Len(s)
          /\ Slice(s, p, p + 1) \in { << ":" >>, << "=" >>, << "<" >>, << ">" >> }
    THEN Extend(m, p + 1, Slice(s, p, p + 1))
  ELSE Fail(p)

\* operator = oneOf(': = != < > >= <='): the longest operator that matches
operator(s, m) == IF m.ok THEN OperatorAt(s, m, SkipWs(s, m.loc)) ELSE m

\* column = Word(alphanums + '_')
column(s, m) == Word(s, m, alphanums \cup { "_" })

DashAt(s, m, p) ==
  IF p + 1 < Len(s) /\ s[p + 1] = "-" /\ s[p + 2] # " "
    THEN Extend(m, p + 1, DASH)
    ELSE m

\* the optional "-" written immediately before a clause or an order column
OptDash(s, m) == IF m.ok THEN DashAt(s, m, SkipWs(s, m.loc)) ELSE m

RECURSIVE MoreValues(_, _)
MoreValuesIf(s, acc, r) == IF r.ok THEN MoreValues(s, r) ELSE acc

\* ZeroOrMore(Suppress(',') + singleValue)
MoreValues(s, acc) ==
  IF acc.ok THEN MoreValuesIf(s, acc, singleValue(s, Suppress(s, acc, << "," >>)))
  ELSE acc

\* Group(values): the tokens of inner become the value group of m
ValueGroup(m, inner) ==
  IF inner.ok THEN Match(TRUE, inner.loc, m.toks, inner.toks, m.kids) ELSE inner

\* multiValues = delimitedList(singleValue, delim=',')
multiValues(s, m) ==
  IF m.ok THEN ValueGroup(m, MoreValues(s, singleValue(s, Fresh(m)))) ELSE m

\* column + operator + singleValue
SearchColumn(s, m) ==
  IF m.ok
    THEN Group("search_column", m,
               singleValue(s, operator(s, column(s, OptDash(s, Fresh(m))))))
    ELSE m

\* IN | NOTIN
InOrNotIn(s, m) == MatchFirst2(CaselessKeyword(s, m, INKW), CaselessKeyword(s, m, NOTIN))

\* column + (IN | NOTIN) + Suppress('(') + Group(multiValues) + Suppress(')')
SearchColumnIn(s, m) ==
  IF m.ok
    THEN Group("search_column_in", m,
               Suppress(s,
                        multiValues(s,
                                    Suppress(s, InOrNotIn(s, column(s, OptDash(s, Fresh(m)))),
                                             << "(" >>)),
                        << ")" >>))
    ELSE m

\* singleValue on its own
SearchAllColumns(s, m) ==
  IF m.ok THEN Group("search_all_columns", m, singleValue(s, OptDash(s, Fresh(m))))
  ELSE m

\* singleQuery = Group(SearchColumn | SearchColumnIn | SearchAllColumns)
singleQuery(s, m) ==
  IF m.ok
    THEN MatchFirst2(SearchColumn(s, m),
                     MatchFirst2(SearchColumnIn(s, m), SearchAllColumns(s, m)))
    ELSE m

\* len(node) of a ParseResults: its tokens, the value group counting as one
NodeLen(node) ==
  Len(node.toks) + (IF node.name = "search_column_in" THEN 1 ELSE 0)

\* UnOp: operator = tokens[0][0], operands = [tokens[0][1]]
UnaryOperator(op, operand) == Node(op, << >>, << >>, << operand >>)

\* BinOp: operator = tokens[0][1], operands = tokens[0][::2]
BinaryOperator(op, operands) == Node(op, << >>, << >>, operands)

\* the parse action of a unary level: its operand becomes one node of m
Unary(op, m, inner) ==
  IF inner.ok
    THEN Match(TRUE, inner.loc, m.toks, m.vals,
               Append(m.kids, UnaryOperator(op, inner.kids[1])))
    ELSE inner

\* the parse action of a binary level: two or more operands become one
\* node of m, a single operand stays as it is
Binary(op, m, inner) ==
  IF inner.ok
    THEN Match(TRUE, inner.loc, m.toks, m.vals,
               Append(m.kids, IF Len(inner.kids) > 1
                                THEN BinaryOperator(op, inner.kids)
                                ELSE inner.kids[1]))
    ELSE inner

RECURSIVE OrLevel(_, _), AndLevel(_, _), NotLevel(_, _), Operand(_, _)
RECURSIVE MoreAnd(_, _), MoreOr(_, _)

\* infixNotation's operand: singleQuery | '(' multiQueryWithOp ')'
Operand(s, m) ==
  IF m.ok
    THEN MatchFirst2(singleQuery(s, m),
                     Suppress(s, OrLevel(s, Suppress(s, m, << "(" >>)), << ")" >>))
    ELSE m

\* (NOT, 1, opAssoc.RIGHT, UnOp): NOT operand | operand
NotLevel(s, m) ==
  IF m.ok
    THEN MatchFirst2(Unary("not", m, NotLevel(s, CaselessKeyword(s, Fresh(m), NOT))),
                     Operand(s, m))
    ELSE m

MoreAndIf(s, acc, r) == IF r.ok THEN MoreAnd(s, r) ELSE acc

\* OneOrMore(AND + operand), collected after the first operand
MoreAnd(s, acc) ==
  IF acc.ok THEN MoreAndIf(s, acc, NotLevel(s, CaselessKeyword(s, acc, AND))) ELSE acc

\* (AND, 2, opAssoc.LEFT, BinOp)
AndLevel(s, m) ==
  IF m.ok THEN Binary("and", m, MoreAnd(s, NotLevel(s, Fresh(m)))) ELSE m

MoreOrIf(s, acc, r) == IF r.ok THEN MoreOr(s, r) ELSE acc

\* OneOrMore(OR + operand), collected after the first operand
MoreOr(s, acc) ==
  IF acc.ok THEN MoreOrIf(s, acc, AndLevel(s, CaselessKeyword(s, acc, OR))) ELSE acc

\* (OR, 2, opAssoc.LEFT, BinOp)
OrLevel(s, m) ==
  IF m.ok THEN Binary("or", m, MoreOr(s, AndLevel(s, Fresh(m)))) ELSE m

\* multiQueryWithOp = infixNotation(singleQuery, [NOT, AND, OR])
multiQueryWithOp(s, m) == OrLevel(s, m)

\* whether the ORDER BY keyword stands at loc
AtOrderBy(s, loc) == KeywordAt(s, SkipWs(s, loc), ORDERBY)

\* one order column, "-" before it for descending
OrderItem(s, m) ==
  IF m.ok THEN Group("orderby", m, column(s, OptDash(s, Fresh(m)))) ELSE m

RECURSIVE MoreOrderItems(_, _)
MoreOrderItemsIf(s, acc, r) == IF r.ok THEN MoreOrderItems(s, r) ELSE acc

\* the order columns after the first, each after a comma
MoreOrderItems(s, acc) ==
  IF acc.ok THEN MoreOrderItemsIf(s, acc, OrderItem(s, Suppress(s, acc, << "," >>)))
  ELSE acc

\* the trailing clause ORDER BY col1, -col2, ...: one orderby node per column
OrderByClause(s, m) ==
  IF m.ok /\ AtOrderBy(s, m.loc)
    THEN MoreOrderItems(s, OrderItem(s, CaselessKeyword(s, m, ORDERBY)))
    ELSE m

RECURSIVE MoreQueries(_, _)
MoreQueriesIf(s, acc, r) ==
  IF r.ok /\ ~AtOrderBy(s, acc.loc) THEN MoreQueries(s, r) ELSE acc

\* the repetitions of OneOrMore(multiQueryWithOp) after the first
MoreQueries(s, acc) ==
  IF acc.ok THEN MoreQueriesIf(s, acc, multiQueryWithOp(s, acc)) ELSE acc

\* OneOrMore(multiQueryWithOp), or none before a leading ORDER BY
Queries(s, m) ==
  IF AtOrderBy(s, m.loc) THEN m ELSE MoreQueries(s, multiQueryWithOp(s, m))

StringEndAt(m, p, len) == IF p < len THEN Fail(p) ELSE m

\* StringEnd()
StringEnd(s, m) == IF m.ok THEN StringEndAt(m, SkipWs(s, m.loc), Len(s)) ELSE m

\* the ParseResults of a whole search string, or the ParseException
Parsed(m) == [ok |-> m.ok, loc |-> m.loc, node |-> Node("root", << >>, << >>, m.kids)]

\* searchQuery = OneOrMore(multiQueryWithOp) + StringEnd(), parseString(s):
\* [ok |-> TRUE, node |-> the root] or [ok |-> FALSE, loc |-> the
\* ParseException's loc]
parseString(s) == Parsed(StringEnd(s, OrderByClause(s, Queries(s, Start(0)))))

(***************************************************************************)
(* Query values and Q objects                                              *)
(*                                                                         *)
(* A value is [ty, s, n]: a string (s), a number in thousandths (n), a     *)
(* boolean (n = 1 or 0), a date in minutes (n), or the empty list.       *)
(* A Q object is a tree node [conn, neg, field, lookup, val, kids]: a      *)
(* connector node ("AND"/"OR", possibly negated) over its children, or a   *)
(* leaf (conn = "LEAF") holding one lookup  field__lookup = val.           *)
(***************************************************************************)
StrValue(s) == [ty |-> "str", s |-> s, n |-> 0]

NumValue(n) == [ty |-> "num", s |-> << >>, n |-> n]

BoolValue(b) == [ty |-> "bool", s |-> << >>, n |-> IF b THEN 1 ELSE 0]

DateValue(n) == [ty |-> "date", s |-> << >>, n |-> n]

EmptyList == [ty |-> "list", s |-> << >>, n |-> 0]

NoValue == [ty |-> "none", s |-> << >>, n |-> 0]

Leaf(field, lookup, val) ==
  [conn |-> "LEAF", neg |-> FALSE, field |-> field, lookup |-> lookup,
   val |-> val, kids |-> << >>]

QNode(conn, neg, kids) ==
  [conn |-> conn, neg |-> neg, field |-> "", lookup |-> "", val |-> NoValue,
   kids |-> kids]

\* Q(**{field__lookup: val})
Q1(field, lookup, val) == QNode("AND", FALSE, << Leaf(field, lookup, val) >>)

\* Q(**{k1: v1, k2: v2}): the two lookups joined by AND
Q2(leaf1, leaf2) == QNode("AND", FALSE, << leaf1, leaf2 >>)

\* DjangoSearch.NORESULTS = Q(pk__in=[])
NORESULTS == Q1("pk", "in", EmptyList)

\* DjangoSearch.NOOP = Q()
NOOP == QNode("AND", FALSE, << >>)

\* Node.add(data, conn): a child that is not negated and has the same
\* connector, or one child only, is merged into the parent
QAdd(kids, data, conn) ==
  IF ~data.neg /\ (data.conn = conn \/ Len(data.kids) = 1)
    THEN kids \o data.kids
    ELSE Append(kids, data)

\* Q._combine(other, conn): an empty operand leaves the other unchanged
QCombine(a, b, conn) ==
  IF Len(b.kids) = 0 THEN a
  ELSE IF Len(a.kids) = 0 THEN b
  ELSE QNode(conn, FALSE, QAdd(QAdd(<< >>, a, conn), b, conn))

\* x & y
QAnd(a, b) == QCombine(a, b, "AND")

\* x | y
QOr(a, b) == QCombine(a, b, "OR")

\* ~x
QNot(a) == QNode("AND", TRUE, QAdd(<< >>, a, "AND"))

RECURSIVE Reduce(_, _, _)
\* reduce(lambda x, y: x & y, qobjects) and its | twin, on a list that is
\* not empty
Reduce(qobjects, andjoin, acc) ==
  IF Len(qobjects) = 0 THEN acc
  ELSE Reduce(Tail(qobjects), andjoin,
              IF andjoin THEN QAnd(acc, qobjects[1]) ELSE QOr(acc, qobjects[1]))

\* utils.merge_qobjects(qobjects, andjoin=True), qobjects not empty
merge_qobjects(qobjects, andjoin) == Reduce(Tail(qobjects), andjoin, qobjects[1])

(***************************************************************************)
(* Errors.  A SearchError or ParseException message is [kind, arg, pos];   *)
(* the other kinds are Python exceptions no handler of the package names.  *)
(***************************************************************************)
Err(kind, arg, pos) == [kind |-> kind, arg |-> arg, pos |-> pos]

\* self._error = None / no exception
None == Err("None", << >>, 0)

SearchErrorKinds ==
  { "UnknownField", "AmbiguousField", "InvalidOperatorForString",
    "InvalidOperatorForNone", "InvalidBoolean", "InvalidDate",
    "UnknownDateFormat", "UnknownNumberFormat" }

\* raise SearchError(...)
SearchError(kind, arg) == Err(kind, arg, 0)

IsSearchError(e) == e.kind \in SearchErrorKinds

\* an exception that is neither a SearchError nor a ParseException
IsUncaught(e) == e.kind \in { "KeyError", "TypeError", "IndexError" }

(***************************************************************************)
(* utils: value tests and unit conversion                                  *)
(***************************************************************************)
\* utils.NONE
NONE == { << "n", "o", "n", "e" >>, << "n", "u", "l", "l" >> }

\* utils.is_none
is_none(valuestr) == lower(valuestr) \in NONE

\* str.strip()
Strip(s) ==
  IF IsBlank(s) THEN << >>
  ELSE LET a == CHOOSE i \in 1..Len(s) : s[i] # " " /\ \A k \in 1..(i - 1) : s[k] = " "
           b == CHOOSE i \in 1..Len(s) : s[i] # " " /\ \A k \in (i + 1)..Len(s) : s[k] = " "
       IN  Slice(s, a - 1, b)

\* str.replace(old, new) for single characters
ReplaceChar(s, old, new) == [i \in 1..Len(s) |-> IF s[i] = old THEN new ELSE s[i]]

DigitValue(c) == (CHOOSE i \in 1..10 : DigitChars[i] = c) - 1

IsDigits(s) == \A i \in 1..Len(s) : s[i] \in Range(DigitChars)

RECURSIVE DigitsToInt(_)
DigitsToInt(s) ==
  IF Len(s) = 0 THEN 0
  ELSE 10 * DigitsToInt(Slice(s, 0, Len(s) - 1)) + DigitValue(s[Len(s)])

RECURSIVE Pow10(_)
Pow10(e) == IF e = 0 THEN 1 ELSE 10 * Pow10(e - 1)

\* the number of decimal places a number value keeps: a number is an
\* integer count of 10^-Places
Places == 3

\* the digits after the point, as a count of 10^-Places
FracValue(frac) ==
  IF Len(frac) > Places THEN DigitsToInt(Slice(frac, 0, Places))
  ELSE DigitsToInt(frac) * Pow10(Places - Len(frac))

\* digits, point, digits: at least one digit
Digits(whole, frac) ==
  IF IsDigits(whole) /\ IsDigits(frac) /\ Len(whole) + Len(frac) > 0
    THEN [ok |-> TRUE, n |-> DigitsToInt(whole) * Pow10(Places) + FracValue(frac)]
    ELSE [ok |-> FALSE, n |-> 0]

\* the 1-based place of the first point of body, or Len(body) + 1
DotAt(body) ==
  IF \E i \in 1..Len(body) : body[i] = "."
    THEN CHOOSE i \in 1..Len(body) : body[i] = "." /\ \A k \in 1..(i - 1) : body[k] # "."
    ELSE Len(body) + 1

Decimal(body, dot) ==
  Digits(Slice(body, 0, dot - 1),
         IF dot <= Len(body) THEN Slice(body, dot, Len(body)) ELSE << >>)

Unsigned(body) == Decimal(body, DotAt(body))

Signed(negative, f) == IF negative THEN [ok |-> f.ok, n |-> 0 - f.n] ELSE f

FloatOf(s) ==
  IF Len(s) > 0 /\ s[1] \in { "-", "+" }
    THEN Signed(s[1] = "-", Unsigned(Slice(s, 1, Len(s))))
    ELSE Unsigned(s)

\* float(s) of a decimal literal: an optional sign, digits, at most one point
\* and at least one digit; [ok, n].  (The exponent, inf and nan spellings
\* float() also takes are not among the tokens used.)
ParseFloat(str) == FloatOf(Strip(str))

\* utils.is_number
is_number(valuestr) == ParseFloat(valuestr).ok

IsInt(s) ==
  /\ Len(s) > 0
  /\ IF s[1] \in { "-", "+" } THEN Len(s) > 1 /\ IsDigits(Slice(s, 1, Len(s)))
     ELSE IsDigits(s)

\* utils.is_int, for the digit strings and words used as tokens
is_int(valuestr) == IsInt(Strip(valuestr))

IntOfStripped(s) ==
  IF s[1] = "-" THEN 0 - DigitsToInt(Slice(s, 1, Len(s)))
  ELSE IF s[1] = "+" THEN DigitsToInt(Slice(s, 1, Len(s)))
  ELSE DigitsToInt(s)

\* int(valuestr) of a string is_int accepts
IntOf(valuestr) == IntOfStripped(Strip(valuestr))

\* utils.UNITS_NUM: the power of ten of each multiplier and its unit names
UNITS_NUM ==
  << [exp |-> 15, units |-> { << "q" >>, << "q", "a" >>,
                              << "q","u","a","d","r","i","l","l","i","o","n" >> }],
     [exp |-> 12, units |-> { << "t" >>, << "t", "n" >>,
                              << "t","r","i","l","l","i","o","n" >> }],
     [exp |-> 9, units |-> { << "b" >>, << "b", "n" >>,
                             << "b","i","l","l","i","o","n" >> }],
     [exp |-> 6, units |-> { << "m" >>, << "m","i","l","l","i","o","n" >> }],
     [exp |-> 3, units |-> { << "k" >>, << "t","h","o","u","s","a","n","d" >> }],
     [exp |-> 0, units |-> { }] >>

\* for mult, unitlist in units: if unit in unitlist
UnitKnown(unit) == \E k \in 1..Len(UNITS_NUM) : unit \in UNITS_NUM[k].units

UnitExp(unit) ==
  UNITS_NUM[CHOOSE k \in 1..Len(UNITS_NUM) :
              unit \in UNITS_NUM[k].units
              /\ \A j \in 1..(k - 1) : unit \notin UNITS_NUM[j].units].exp

\* float(value) * mult
Scaled(f, exp) == IF f.ok THEN [ok |-> TRUE, n |-> f.n * Pow10(exp)] ELSE f

\* the match of r'^(-*[0-9\.]+)\s*([a-z]+)$': the minus signs end at i1, the
\* digits and points at i2, the blanks at i3; letters follow to the end
ConvertUnit(s, i1, i2, i3) ==
  IF /\ i2 > i1
     /\ i3 < Len(s)
     /\ RunEnd(s, i3, Range(LowerChars)) = Len(s)
     /\ UnitKnown(Slice(s, i3, Len(s)))
    THEN Scaled(ParseFloat(Slice(s, 0, i2)), UnitExp(Slice(s, i3, Len(s))))
    ELSE ParseFloat(s)

ConvertValue(s, i1, i2) == ConvertUnit(s, i1, i2, RunEnd(s, i2, { " " }))

ConvertFrom(s, i1) == ConvertValue(s, i1, RunEnd(s, i1, Range(DigitChars) \cup { "." }))

ConvertLowered(s) == ConvertFrom(s, RunEnd(s, 0, { "-" }))

\* utils.convert_units(valuestr, UNITS_NUM): [ok, n]; ok = FALSE when it
\* raises (an unknown format, or float() of the digits part fails)
convert_units(valuestr) ==
  IF Len(valuestr) = 0 THEN [ok |-> TRUE, n |-> 0]
  ELSE ConvertLowered(Strip(lower(valuestr)))

(***************************************************************************)
(* Dates.  A datetime is [y, mo, d, mi]: a calendar day and the minute of  *)
(* that day; all datetimes are in the one time zone of the search fields.  *)
(***************************************************************************)
\* calendar.month_name + calendar.month_abbr + 'sept', in lower case
MONTH_NAMES ==
  { << "j", "a", "n", "u", "a", "r", "y" >>,
    << "f", "e", "b", "r", "u", "a", "r", "y" >>,
    << "m", "a", "r", "c", "h" >>,
    << "a", "p", "r", "i", "l" >>,
    << "m", "a", "y" >>,
    << "j", "u", "n", "e" >>,
    << "j", "u", "l", "y" >>,
    << "a", "u", "g", "u", "s", "t" >>,
    << "s", "e", "p", "t", "e", "m", "b", "e", "r" >>,
    << "o", "c", "t", "o", "b", "e", "r" >>,
    << "n", "o", "v", "e", "m", "b", "e", "r" >>,
    << "d", "e", "c", "e", "m", "b", "e", "r" >>,
    << "j", "a", "n" >>,
    << "f", "e", "b" >>,
    << "m", "a", "r" >>,
    << "a", "p", "r" >>,
    << "m", "a", "y" >>,
    << "j", "u", "n" >>,
    << "j", "u", "l" >>,
    << "a", "u", "g" >>,
    << "s", "e", "p" >>,
    << "o", "c", "t" >>,
    << "n", "o", "v" >>,
    << "d", "e", "c" >>,
    << "s", "e", "p", "t" >> }

\* calendar.day_name + calendar.day_abbr, in lower case
WEEKDAY_NAMES ==
  { << "m", "o", "n", "d", "a", "y" >>,
    << "t", "u", "e", "s", "d", "a", "y" >>,
    << "w", "e", "d", "n", "e", "s", "d", "a", "y" >>,
    << "t", "h", "u", "r", "s", "d", "a", "y" >>,
    << "f", "r", "i", "d", "a", "y" >>,
    << "s", "a", "t", "u", "r", "d", "a", "y" >>,
    << "s", "u", "n", "d", "a", "y" >>,
    << "m", "o", "n" >>,
    << "t", "u", "e" >>,
    << "w", "e", "d" >>,
    << "t", "h", "u" >>,
    << "f", "r", "i" >>,
    << "s", "a", "t" >>,
    << "s", "u", "n" >> }

DateTime(y, mo, d, mi) == [y |-> y, mo |-> mo, d |-> d, mi |-> mi]

IsLeap(y) == (y % 4 = 0 /\ y % 100 # 0) \/ y % 400 = 0

DaysInMonth(y, mo) ==
  IF mo = 2 THEN (IF IsLeap(y) THEN 29 ELSE 28)
  ELSE IF mo \in { 4, 6, 9, 11 } THEN 30 ELSE 31

RECURSIVE DaysBeforeMonth(_, _)
DaysBeforeMonth(y, mo) ==
  IF mo = 1 THEN 0 ELSE DaysBeforeMonth(y, mo - 1) + DaysInMonth(y, mo - 1)

\* date.toordinal()
Ordinal(dt) ==
  LET p == dt.y - 1
  IN  p * 365 + (p \div 4) - (p \div 100) + (p \div 400)
        + DaysBeforeMonth(dt.y, dt.mo) + dt.d

\* datetimes compared: minutes on one time line, counted from 1900-01-01
Minutes(dt) == (Ordinal(dt) - Ordinal(DateTime(1900, 1, 1, 0))) * 1440 + dt.mi

\* date.weekday(): Monday is 0
weekday(dt) == (Ordinal(dt) + 6) % 7

RECURSIVE AddDays(_, _)
\* dt + timedelta(days=n)
AddDays(dt, n) ==
  IF n = 0 THEN dt
  ELSE IF n > 0
    THEN (IF dt.d < DaysInMonth(dt.y, dt.mo)
            THEN AddDays([dt EXCEPT !.d = dt.d + 1], n - 1)
          ELSE IF dt.mo < 12
            THEN AddDays([dt EXCEPT !.mo = dt.mo + 1, !.d = 1], n - 1)
          ELSE AddDays([dt EXCEPT !.y = dt.y + 1, !.mo = 1, !.d = 1], n - 1))
  ELSE (IF dt.d > 1 THEN AddDays([dt EXCEPT !.d = dt.d - 1], n + 1)
        ELSE IF dt.mo > 1
          THEN AddDays([dt EXCEPT !.mo = dt.mo - 1,
                                  !.d = DaysInMonth(dt.y, dt.mo - 1)], n + 1)
        ELSE AddDays([dt EXCEPT !.y = dt.y - 1, !.mo = 12, !.d = 31], n + 1))

\* dt + relativedelta(years=n): the day is cut to the month's last
AddYears(dt, n) ==
  [dt EXCEPT !.y = dt.y + n, !.d = Min(dt.d, DaysInMonth(dt.y + n, dt.mo))]

\* dt + relativedelta(months=1)
AddMonth(dt) ==
  LET y == IF dt.mo = 12 THEN dt.y + 1 ELSE dt.y
      mo == IF dt.mo = 12 THEN 1 ELSE dt.mo + 1
  IN  [dt EXCEPT !.y = y, !.mo = mo, !.d = Min(dt.d, DaysInMonth(y, mo))]

\* utils.clear_dt(dt, clearto): the attributes after clearto are reset
clear_dt(dt, clearto) ==
  IF clearto = "year" THEN DateTime(dt.y, 1, 1, 0)
  ELSE IF clearto = "month" THEN DateTime(dt.y, dt.mo, 1, 0)
  ELSE DateTime(dt.y, dt.mo, dt.d, 0)

RECURSIVE Split(_)
SplitAt(s, p) ==
  IF p >= Len(s) THEN << >>
  ELSE << Slice(s, p, RunEnd(s, p, printables)) >>
         \o Split(Slice(s, RunEnd(s, p, printables), Len(s)))

\* str.split(): the words between runs of blanks
Split(s) == SplitAt(s, SkipWs(s, 0))

\* utils.is_year
is_year(valuestr) ==
  is_int(valuestr) /\ 1900 <= IntOf(valuestr) /\ IntOf(valuestr) <= 2100

\* utils.is_month
is_month(valuestr) == Strip(lower(valuestr)) \in MONTH_NAMES

\* utils.is_month_num
is_month_num(valuestr) ==
  is_int(valuestr) /\ 0 < IntOf(valuestr) /\ IntOf(valuestr) <= 12

\* utils.is_day_num
is_day_num(valuestr) ==
  is_int(valuestr) /\ 0 < IntOf(valuestr) /\ IntOf(valuestr) <= 31

\* utils.is_weekday
is_weekday(valuestr) == lower(valuestr) \in WEEKDAY_NAMES

\* the quickmatch table of datestr_rdelta
quickmatch ==
  { [k |-> << "l", "a", "s", "t", " ", "y", "e", "a", "r" >>, v |-> "year"],
    [k |-> << "t", "h", "i", "s", " ", "y", "e", "a", "r" >>, v |-> "year"],
    [k |-> << "n", "e", "x", "t", " ", "y", "e", "a", "r" >>, v |-> "year"],
    [k |-> << "l", "a", "s", "t", " ", "m", "o", "n", "t", "h" >>, v |-> "month"],
    [k |-> << "t", "h", "i", "s", " ", "m", "o", "n", "t", "h" >>, v |-> "month"],
    [k |-> << "n", "e", "x", "t", " ", "m", "o", "n", "t", "h" >>, v |-> "month"],
    [k |-> << "l", "a", "s", "t", " ", "w", "e", "e", "k" >>, v |-> "week"],
    [k |-> << "t", "h", "i", "s", " ", "w", "e", "e", "k" >>, v |-> "week"],
    [k |-> << "n", "e", "x", "t", " ", "w", "e", "e", "k" >>, v |-> "week"],
    [k |-> << "y", "e", "s", "t", "e", "r", "d", "a", "y" >>, v |-> "day"],
    [k |-> << "t", "o", "d", "a", "y" >>, v |-> "day"],
    [k |-> << "t", "o", "m", "o", "r", "r", "o", "w" >>, v |-> "day"] }

\* the last of '.', '/', '-' (in that order) that valuestr holds
Delim(valuestr) ==
  IF "-" \in Range(valuestr) THEN "-"
  ELSE IF "/" \in Range(valuestr) THEN "/"
  ELSE IF "." \in Range(valuestr) THEN "."
  ELSE "None"

\* re.sub(r'[\/\.\-]', ' ', datestr)
Spaced(datestr) ==
  [i \in 1..Len(datestr) |-> IF datestr[i] \in { "/", ".", "-" } THEN " " ELSE datestr[i]]

Rdelta(r) == [raise |-> None, rdelta |-> r]

\* the tests of datestr_rdelta on the words of the date string
RdeltaOf(valuestr, delim, datestr, strs) ==
  IF \E e \in quickmatch : e.k = datestr
    THEN Rdelta((CHOOSE e \in quickmatch : e.k = datestr).v)
  ELSE IF is_year(valuestr) THEN Rdelta("year")
  ELSE IF is_month(valuestr) THEN Rdelta("month")
  ELSE IF Len(strs) = 2 /\ is_month(strs[1]) /\ is_year(strs[2]) THEN Rdelta("month")
  ELSE IF Len(strs) = 2 /\ is_year(strs[1]) /\ is_month(strs[2]) THEN Rdelta("month")
  ELSE IF Len(strs) = 2 /\ is_month(strs[1]) /\ is_day_num(strs[2]) THEN Rdelta("day")
  ELSE IF Len(strs) = 2 /\ is_day_num(strs[1]) /\ is_month(strs[2]) THEN Rdelta("day")
  ELSE IF Len(strs) = 2
          /\ strs[1] \in { << "l","a","s","t" >>, << "t","h","i","s" >>, << "n","e","x","t" >> }
          /\ is_weekday(strs[2])
    THEN Rdelta("day")
  ELSE IF Len(strs) = 3 /\ is_year(strs[1]) /\ is_month(strs[2]) /\ is_day_num(strs[3])
    THEN Rdelta("day")
  ELSE IF Len(strs) = 3 /\ is_month(strs[1]) /\ is_day_num(strs[2]) /\ is_year(strs[3])
    THEN Rdelta("day")
  ELSE IF Len(strs) = 3 /\ is_day_num(strs[1]) /\ is_month(strs[2]) /\ is_year(strs[3])
    THEN Rdelta("day")
  ELSE IF Len(strs) = 3 /\ is_year(strs[1]) /\ is_month_num(strs[2]) /\ is_day_num(strs[3])
    THEN Rdelta("day")
  ELSE IF Len(strs) = 3 /\ is_month_num(strs[1]) /\ is_day_num(strs[2]) /\ is_year(strs[3])
    THEN (IF delim = "None" THEN [raise |-> Err("TypeError", << >>, 0), rdelta |-> "None"]
          ELSE IF delim \in { "/", "-" } THEN Rdelta("day")
          ELSE IF is_day_num(strs[1]) /\ is_month_num(strs[2]) /\ delim = "."
            THEN Rdelta("day")
          ELSE Rdelta("None"))
  ELSE IF Len(strs) = 3 /\ is_day_num(strs[1]) /\ is_month_num(strs[2])
          /\ is_year(strs[3]) /\ delim = "."
    THEN Rdelta("day")
  ELSE Rdelta("None")

RdeltaWords(valuestr, datestr) == RdeltaOf(valuestr, Delim(valuestr), datestr, Split(datestr))

\* utils.datestr_rdelta: [raise, rdelta], rdelta one of "year", "month",
\* "week", "day" or "None"; it raises TypeError where `delim in '/-'` is
\* evaluated with delim = None
datestr_rdelta(valuestr) == RdeltaWords(valuestr, Spaced(Strip(lower(valuestr))))

MinMax(mindate, maxdate) ==
  [raise |-> None, min |-> mindate, max |-> maxdate, hasmax |-> TRUE]

YearRange(mindate) == MinMax(mindate, AddYears(mindate, 1))

MonthFrom(mindate) == MinMax(mindate, AddMonth(mindate))

\* if mindate > now: mindate -= relativedelta(years=1)
MonthRange(mindate, now) ==
  MonthFrom(IF Minutes(mindate) > Minutes(now) THEN AddYears(mindate, -1) ELSE mindate)

WeekRange(mindate) == MinMax(mindate, AddDays(mindate, 7))

DayRange(mindate) == MinMax(mindate, AddDays(mindate, 1))

MinMaxOf(rd, qvalue, now) ==
  IF rd.raise # None
    THEN [raise |-> rd.raise, min |-> qvalue, max |-> qvalue, hasmax |-> FALSE]
  ELSE IF rd.rdelta = "year" THEN YearRange(clear_dt(qvalue, "year"))
  ELSE IF rd.rdelta = "month" THEN MonthRange(clear_dt(qvalue, "month"), now)
  ELSE IF rd.rdelta = "week"
    THEN WeekRange(clear_dt(AddDays(qvalue, 0 - ((weekday(qvalue) + 1) % 7)), "day"))
  ELSE IF rd.rdelta = "day" THEN DayRange(clear_dt(qvalue, "day"))
  ELSE [raise |-> None, min |-> qvalue, max |-> qvalue, hasmax |-> FALSE]

\* utils.get_min_max_dates(valuestr, qvalue, tz), after
\* BaseDateField._get_min_max_dates: [raise, min, max, hasmax]
get_min_max_dates(valuestr, qvalue, now) == MinMaxOf(datestr_rdelta(valuestr), qvalue, now)

(***************************************************************************)
(* Modifiers and search fields.  A call that can raise returns a record    *)
(* whose raise field is None when it returned normally.                    *)
(***************************************************************************)
\* modifiers.boolean: [raise, val]
boolean(valuestr) ==
  IF lower(valuestr) \in { << "t", "r", "u", "e" >>, << "t" >>, << "y", "e", "s" >>, << "y" >>, << "1" >> }
    THEN [raise |-> None, val |-> BoolValue(TRUE)]
  ELSE IF lower(valuestr) \in { << "f", "a", "l", "s", "e" >>, << "f" >>, << "n", "o" >>, << "n" >>, << "0" >> }
    THEN [raise |-> None, val |-> BoolValue(FALSE)]
  ELSE [raise |-> SearchError("InvalidBoolean", valuestr), val |-> NoValue]

NumOf(valuestr, converted) ==
  IF converted.ok THEN [raise |-> None, val |-> NumValue(converted.n)]
  ELSE [raise |-> SearchError("UnknownNumberFormat", valuestr), val |-> NoValue]

\* modifiers.num: [raise, val]
num(valuestr) == NumOf(valuestr, convert_units(valuestr))

\* calendar.month_name, in lower case
MonthList ==
  << << "j", "a", "n", "u", "a", "r", "y" >>,
     << "f", "e", "b", "r", "u", "a", "r", "y" >>,
     << "m", "a", "r", "c", "h" >>,
     << "a", "p", "r", "i", "l" >>,
     << "m", "a", "y" >>,
     << "j", "u", "n", "e" >>,
     << "j", "u", "l", "y" >>,
     << "a", "u", "g", "u", "s", "t" >>,
     << "s", "e", "p", "t", "e", "m", "b", "e", "r" >>,
     << "o", "c", "t", "o", "b", "e", "r" >>,
     << "n", "o", "v", "e", "m", "b", "e", "r" >>,
     << "d", "e", "c", "e", "m", "b", "e", "r" >> >>

\* the month a month name or its abbreviation names
MonthNumber(name) ==
  CHOOSE m \in 1..12 :
    \/ name = MonthList[m]
    \/ name = Slice(MonthList[m], 0, 3)
    \/ (m = 9 /\ name = << "s", "e", "p", "t" >>)

Parsed_dt(dt) == [ok |-> TRUE, dt |-> dt]

\* four digits alone: timelib reads them as the time HH:MM of today when
\* they form one, and as a year of the current day and time otherwise
FourDigits(s, now, midnight) ==
  IF DigitsToInt(Slice(s, 0, 2)) <= 24 /\ DigitsToInt(Slice(s, 2, 4)) <= 59
    THEN Parsed_dt([midnight EXCEPT !.mi = DigitsToInt(Slice(s, 0, 2)) * 60
                                            + DigitsToInt(Slice(s, 2, 4))])
    ELSE Parsed_dt([now EXCEPT !.y = DigitsToInt(s)])

\* YYYY-MM: the first day of the month, at midnight
YearMonth(s, now) ==
  IF DigitsToInt(Slice(s, 5, 7)) \in 1..12
    THEN Parsed_dt(DateTime(DigitsToInt(Slice(s, 0, 4)), DigitsToInt(Slice(s, 5, 7)), 1, 0))
    ELSE [ok |-> FALSE, dt |-> now]

\* the texts of more than one word: last/this/next week, month or year keep
\* the time of day; a month name with a year is the first day of that
\* month, at midnight
DateWords(s, now, words) ==
  IF s = << "l", "a", "s", "t", " ", "w", "e", "e", "k" >> THEN Parsed_dt(AddDays(now, -7))
  ELSE IF s = << "n", "e", "x", "t", " ", "w", "e", "e", "k" >> THEN Parsed_dt(AddDays(now, 7))
  ELSE IF s = << "n", "e", "x", "t", " ", "m", "o", "n", "t", "h" >> THEN Parsed_dt(AddMonth(now))
  ELSE IF s = << "l", "a", "s", "t", " ", "y", "e", "a", "r" >> THEN Parsed_dt(AddYears(now, -1))
  ELSE IF s = << "n", "e", "x", "t", " ", "y", "e", "a", "r" >> THEN Parsed_dt(AddYears(now, 1))
  ELSE IF s \in { << "t", "h", "i", "s", " ", "w", "e", "e", "k" >>,
                  << "t", "h", "i", "s", " ", "m", "o", "n", "t", "h" >>,
                  << "t", "h", "i", "s", " ", "y", "e", "a", "r" >> }
    THEN Parsed_dt(now)
  ELSE IF Len(words) = 2 /\ words[1] \in MONTH_NAMES /\ Len(words[2]) = 4 /\ IsDigits(words[2])
    THEN Parsed_dt(DateTime(DigitsToInt(words[2]), MonthNumber(words[1]), 1, 0))
  ELSE [ok |-> FALSE, dt |-> now]

StrToDateTime(s, now, midnight) ==
  IF s = << "n", "o", "w" >> THEN Parsed_dt(now)
  ELSE IF s = << "t", "o", "d", "a", "y" >> THEN Parsed_dt(midnight)
  ELSE IF s = << "y", "e", "s", "t", "e", "r", "d", "a", "y" >> THEN Parsed_dt(AddDays(midnight, -1))
  ELSE IF s = << "t", "o", "m", "o", "r", "r", "o", "w" >> THEN Parsed_dt(AddDays(midnight, 1))
  ELSE IF Len(s) = 4 /\ IsDigits(s) THEN FourDigits(s, now, midnight)
  ELSE IF Len(s) = 7 /\ s[5] = "-" /\ IsDigits(Slice(s, 0, 4)) /\ IsDigits(Slice(s, 5, 7))
    THEN YearMonth(s, now)
  ELSE IF " " \in Range(s) THEN DateWords(s, now, Split(s))
  ELSE [ok |-> FALSE, dt |-> now]

\* timelib.strtodatetime for the relative words, a year, a year and month,
\* and a month name with a year: [ok, dt]; every other text used as a date
\* token here is one it rejects
strtodatetime(text, now) == StrToDateTime(Strip(lower(text)), now, clear_dt(now, "day"))

DateOf(spaced, now, parsed) ==
  IF parsed.ok THEN [raise |-> None, dt |-> parsed.dt]
  ELSE [raise |-> SearchError("InvalidDate", spaced), dt |-> now]

DateSpaced(spaced, now) == DateOf(spaced, now, strtodatetime(spaced, now))

\* modifiers.date: [raise, dt]
date(valuestr, now) == DateSpaced(ReplaceChar(valuestr, "_", " "), now)

\* a search field: StrField, NumField, DateField or BoolField
Field(cls, search_key, model_field, generic) ==
  [cls |-> cls, search_key |-> search_key, model_field |-> model_field,
   generic |-> generic]

\* searchfields.OPERATORS
OPERATORS ==
  [op \in { << "=" >>, << ">" >>, << ">", "=" >>, << "<", "=" >>, << "<" >>, << ":" >> } |->
     CASE op = << "=" >> -> "iexact"
       [] op = << ">" >> -> "gt"
       [] op = << ">", "=" >> -> "gte"
       [] op = << "<", "=" >> -> "lte"
       [] op = << "<" >> -> "lt"
       [] op = << ":" >> -> "icontains"]

DateQValue(got) == [raise |-> got.raise, val |-> DateValue(Minutes(got.dt))]

\* DjangoSearchField.get_qvalue with the default modifier of each class:
\* [raise, val]
get_qvalue(field, valuestr, now) ==
  CASE field.cls = "BoolField" -> boolean(valuestr)
    [] field.cls = "NumField" -> num(valuestr)
    [] field.cls = "DateField" -> DateQValue(date(valuestr, now))
    [] OTHER -> [raise |-> None, val |-> StrValue(valuestr)]

\* return ~qobject if exclude else qobject
Negated(qobject, exclude) == IF exclude THEN QNot(qobject) ELSE qobject

Returned(q) == [raise |-> None, q |-> q]

Raised(e) == [raise |-> e, q |-> NOOP]

\* DjangoSearchField.get_subquery_none
get_subquery_none(field, valuestr, oper, exclude) ==
  IF oper \notin { << "=" >>, << ":" >> }
    THEN Raised(SearchError("InvalidOperatorForNone", oper))
    ELSE Returned(Negated(Q1(field.model_field, "isnull", BoolValue(TRUE)), exclude))

\* qobject = Q(**{kwarg: qvalue}), once get_qvalue has returned or raised
QLookup(field, lookup, exclude, qvalue) ==
  IF qvalue.raise # None THEN Raised(qvalue.raise)
  ELSE Returned(Negated(Q1(field.model_field, lookup, qvalue.val), exclude))

\* DjangoSearchField.get_subquery
DjangoSearchField_get_subquery(field, valuestr, oper, exclude, now) ==
  IF is_none(valuestr) THEN get_subquery_none(field, valuestr, oper, exclude)
  ELSE IF oper \notin DOMAIN OPERATORS THEN Raised(Err("KeyError", oper, 0))
  ELSE QLookup(field, OPERATORS[oper], exclude, get_qvalue(field, valuestr, now))

BoolLookup(field, valuestr, oper, exclude, qvalue) ==
  IF qvalue.raise # None THEN Raised(qvalue.raise)
  ELSE IF is_none(valuestr) THEN get_subquery_none(field, valuestr, oper, exclude)
  ELSE Returned(Negated(Q1(field.model_field, "exact", qvalue.val), exclude))

\* BoolField.get_subquery
BoolField_get_subquery(field, valuestr, oper, exclude, now) ==
  BoolLookup(field, valuestr, oper, exclude, get_qvalue(field, valuestr, now))

\* Q(**{kwarg: qvalue}) of one date bound, negated if exclude
DateCmp(field, op, dt, exclude) ==
  Negated(Q1(field.model_field, OPERATORS[op], DateValue(Minutes(dt))), exclude)

\* the kwargs DateField.get_subquery builds, as Q objects
\* the kwargs of DateField.get_subquery with > and < kept strict
DateQObjects_strict(field, oper, exclude, mm) ==
  IF oper \in { << ">", "=" >>, << ">" >> }
    THEN << DateCmp(field, oper, mm.min, exclude) >>
  ELSE IF oper \in { << "<", "=" >>, << "<" >> }
    THEN << DateCmp(field, oper, mm.min, exclude) >>
  ELSE IF oper = << "=" >>
    THEN << DateCmp(field, << ">", "=" >>, mm.min, exclude),
            DateCmp(field, << "<" >>, mm.max, exclude) >>
  ELSE << >>

DateQObjects(field, oper, exclude, mm) ==
  IF oper \in { << ">", "=" >>, << ">" >> }
    THEN << DateCmp(field, << ">", "=" >>, mm.min, exclude) >>
  ELSE IF oper \in { << "<", "=" >>, << "<" >> }
    THEN << DateCmp(field, << "<", "=" >>, mm.min, exclude) >>
  ELSE IF oper = << "=" >>
    THEN << DateCmp(field, << ">", "=" >>, mm.min, exclude),
            DateCmp(field, << "<" >>, mm.max, exclude) >>
  ELSE << >>

\* utils.merge_qobjects(qobjects, not exclude): reduce() of an empty list
\* raises TypeError
DateMerge(qobjects, oper, exclude) ==
  IF Len(qobjects) = 0 THEN Raised(Err("TypeError", oper, 0))
  ELSE Returned(merge_qobjects(qobjects, ~exclude))

DateRange(field, valuestr, oper, exclude, mm) ==
  IF mm.raise # None THEN Raised(mm.raise)
  ELSE IF ~mm.hasmax THEN Raised(SearchError("UnknownDateFormat", valuestr))
  ELSE DateMerge(DateQObjects(field, oper, exclude, mm), oper, exclude)

DateLookup(field, valuestr, oper, exclude, now, qvalue) ==
  IF qvalue.raise # None THEN Raised(qvalue.raise)
  ELSE DateRange(field, valuestr, oper, exclude,
                 get_min_max_dates(valuestr, qvalue.dt, now))

\* DateField.get_subquery
DateField_get_subquery(field, valuestr, oper, exclude, now) ==
  IF is_none(valuestr) THEN get_subquery_none(field, valuestr, oper, exclude)
  ELSE DateLookup(field, valuestr, oper, exclude, now, date(valuestr, now))

\* len(valuestr.split('.')[1]) if '.' in valuestr else 0
SigDigs(valuestr) ==
  IF "." \in Range(valuestr)
    THEN DotAt(Slice(valuestr, DotAt(valuestr), Len(valuestr))) - 1
    ELSE 0

\* the two ranges of a fuzzy number match.  Q(**kwargs) sorts its lookups
\* by name
ContainsRanges(field, ispositive, qvalue, variance) ==
  IF ispositive
    THEN QOr(Q2(Leaf(field.model_field, "gt", NumValue(0 - qvalue - variance)),
                Leaf(field.model_field, "lte", NumValue(0 - qvalue))),
             Q2(Leaf(field.model_field, "gte", NumValue(qvalue)),
                Leaf(field.model_field, "lt", NumValue(qvalue + variance))))
    ELSE Q2(Leaf(field.model_field, "gt", NumValue(0 - qvalue - variance)),
            Leaf(field.model_field, "lte", NumValue(0 - qvalue)))

Abs(n) == IF n < 0 THEN 0 - n ELSE n

\* _get_contains_subquery with ispositive always true
ContainsOf_positive(field, valuestr, got, sigdigs) ==
  IF got.raise # None THEN Raised(got.raise)
  ELSE Returned(ContainsRanges(field, TRUE, Abs(got.val.n),
                               Pow10(Places - Min(sigdigs, Places))))

ContainsOf(field, valuestr, got, sigdigs) ==
  IF got.raise # None THEN Raised(got.raise)
  ELSE Returned(ContainsRanges(field, ~StartsWith(valuestr, << "-" >>), Abs(got.val.n),
                               Pow10(Places - Min(sigdigs, Places))))

\* NumField._get_contains_subquery
_get_contains_subquery(field, valuestr, now) ==
  ContainsOf(field, valuestr, get_qvalue(field, valuestr, now), SigDigs(valuestr))

\* NumField.get_subquery
NumField_get_subquery(field, valuestr, oper, exclude, now) ==
  IF is_none(valuestr) THEN get_subquery_none(field, valuestr, oper, exclude)
  ELSE IF oper = << ":" >> THEN _get_contains_subquery(field, valuestr, now)
  ELSE DjangoSearchField_get_subquery(field, valuestr, oper, exclude, now)

\* StrField.VALID_OPERATORS
StrField_VALID_OPERATORS == { << "=" >>, << ":" >> }

\* StrField.get_subquery
StrField_get_subquery(field, valuestr, oper, exclude, now) ==
  IF is_none(valuestr) THEN get_subquery_none(field, valuestr, oper, exclude)
  ELSE IF oper \notin StrField_VALID_OPERATORS
    THEN Raised(SearchError("InvalidOperatorForString", oper))
  ELSE DjangoSearchField_get_subquery(field, valuestr, oper, exclude, now)

\* field.get_subquery(valuestr, operator, exclude): [raise, q]
get_subquery(field, valuestr, oper, exclude, now) ==
  CASE field.cls = "BoolField" -> BoolField_get_subquery(field, valuestr, oper, exclude, now)
    [] field.cls = "DateField" -> DateField_get_subquery(field, valuestr, oper, exclude, now)
    [] field.cls = "NumField" -> NumField_get_subquery(field, valuestr, oper, exclude, now)
    [] OTHER -> StrField_get_subquery(field, valuestr, oper, exclude, now)

(***************************************************************************)
(* BaseSearch.  The attributes a search writes (_error, _order_by,         *)
(* _qobject) are threaded through the compilation as the record st; every  *)
(* method returns [raise, q, st].                                          *)
(***************************************************************************)
BaseSearch(fields, allow_partial_fieldnames) ==
  [fields |-> fields, allow_partial_fieldnames |-> allow_partial_fieldnames]

\* the attributes get_queryset resets, and _qobject
Attrs(error, order_by, qobject) ==
  [_error |-> error, _order_by |-> order_by, _qobject |-> qobject]

\* self.fields.get(key)
ExactKeys(self, key) ==
  { i \in 1..Len(self.fields) : lower(self.fields[i].search_key) = key }

\* [f for k,f in self.fields.items() if key in k]
PartialKeys(self, key) ==
  { i \in 1..Len(self.fields) : Contains(lower(self.fields[i].search_key), key) }

NoField == Field("", << >>, "", FALSE)

\* the lookup taking the first partial match where _get_field raises
\* Ambiguous field
FieldAmong_first(self, searchkey, exact, matches) ==
  IF exact # { }
    THEN [raise |-> None, field |-> self.fields[CHOOSE i \in exact : TRUE]]
  ELSE IF self.allow_partial_fieldnames /\ matches # { }
    THEN [raise |-> None,
          field |-> self.fields[CHOOSE i \in matches : \A j \in matches : i <= j]]
  ELSE [raise |-> SearchError("UnknownField", searchkey), field |-> NoField]

\* the lookup that counts the partial matches before it looks for the exact
\* one
FieldAmong_partial(self, searchkey, exact, matches) ==
  IF self.allow_partial_fieldnames /\ Cardinality(matches) >= 2
    THEN [raise |-> SearchError("AmbiguousField", searchkey), field |-> NoField]
  ELSE IF self.allow_partial_fieldnames /\ Cardinality(matches) = 1
    THEN [raise |-> None, field |-> self.fields[CHOOSE i \in matches : TRUE]]
  ELSE IF exact # { }
    THEN [raise |-> None, field |-> self.fields[CHOOSE i \in exact : TRUE]]
  ELSE [raise |-> SearchError("UnknownField", searchkey), field |-> NoField]

\* the outcome of the lookup from the exact and the partial matches
FieldAmong(self, searchkey, exact, matches) ==
  IF exact # { }
    THEN [raise |-> None, field |-> self.fields[CHOOSE i \in exact : TRUE]]
  ELSE IF self.allow_partial_fieldnames /\ Cardinality(matches) = 1
    THEN [raise |-> None, field |-> self.fields[CHOOSE i \in matches : TRUE]]
  ELSE IF self.allow_partial_fieldnames /\ Cardinality(matches) >= 2
    THEN [raise |-> SearchError("AmbiguousField", searchkey), field |-> NoField]
  ELSE [raise |-> SearchError("UnknownField", searchkey), field |-> NoField]

\* BaseSearch._get_field: [raise, field]
_get_field(self, searchkey) ==
  FieldAmong(self, searchkey, ExactKeys(self, lower(searchkey)),
             PartialKeys(self, lower(searchkey)))

Result(raise, q, st) == [raise |-> raise, q |-> q, st |-> st]

RECURSIVE SubQueries(_, _, _, _, _, _, _)
SubQueriesIf(fields, valuestr, oper, exclude, now, i, qobjects, sub) ==
  IF sub.raise # None THEN [raise |-> sub.raise, qobjects |-> qobjects]
  ELSE SubQueries(fields, valuestr, oper, exclude, now, i + 1, Append(qobjects, sub.q))

\* the loop `for field in fields: qobjects.append(field.get_subquery(
\* valuestr, oper, exclude))`: [raise, qobjects]
SubQueries(fields, valuestr, oper, exclude, now, i, qobjects) ==
  IF i > Len(fields) THEN [raise |-> None, qobjects |-> qobjects]
  ELSE SubQueriesIf(fields, valuestr, oper, exclude, now, i, qobjects,
                    get_subquery(fields[i], valuestr, oper, exclude, now))

RECURSIVE InQueries(_, _, _, _, _, _)
InQueriesIf(field, valuestrs, exclude, now, i, qobjects, sub) ==
  IF sub.raise # None THEN [raise |-> sub.raise, qobjects |-> qobjects]
  ELSE InQueries(field, valuestrs, exclude, now, i + 1, Append(qobjects, sub.q))

\* the loop `for valuestr in valuestrs: qobjects.append(field.get_subquery(
\* valuestr, '=', exclude))`: [raise, qobjects]
InQueries(field, valuestrs, exclude, now, i, qobjects) ==
  IF i > Len(valuestrs) THEN [raise |-> None, qobjects |-> qobjects]
  ELSE InQueriesIf(field, valuestrs, exclude, now, i, qobjects,
                   get_subquery(field, valuestrs[i], << "=" >>, exclude, now))

FromSubquery(st, sub) == Result(sub.raise, sub.q, st)

ColumnOf(now, st, args, exclude, got) ==
  IF got.raise # None THEN Result(got.raise, NOOP, st)
  ELSE FromSubquery(st, get_subquery(got.field, args[3], args[2], exclude, now))

ColumnArgs(self, now, st, args, exclude) ==
  ColumnOf(now, st, args, exclude, _get_field(self, args[1]))

\* BaseSearch._qs_search_column
_qs_search_column(self, now, node, exclude, st) ==
  ColumnArgs(self, now, st,
             IF NodeLen(node) = 4 THEN Tail(node.toks) ELSE node.toks,
             IF NodeLen(node) = 4 THEN ~exclude ELSE exclude)

\* return utils.merge_qobjects(qobjects, exclude)
InMerged(st, exclude, subs) ==
  IF subs.raise # None THEN Result(subs.raise, NOOP, st)
  ELSE IF Len(subs.qobjects) = 0 THEN Result(Err("TypeError", << >>, 0), NOOP, st)
  ELSE Result(None, merge_qobjects(subs.qobjects, exclude), st)

ColumnInOf(now, st, valuestrs, exclude, got) ==
  IF got.raise # None THEN Result(got.raise, NOOP, st)
  ELSE InMerged(st, exclude, InQueries(got.field, valuestrs, exclude, now, 1, << >>))

\* _qs_search_column_in without the flip of exclude for `not in`
ColumnInArgs_in(self, now, st, args, valuestrs, exclude) ==
  ColumnInOf(now, st, valuestrs, exclude, _get_field(self, args[1]))

ColumnInArgs(self, now, st, args, valuestrs, exclude) ==
  ColumnInOf(now, st, valuestrs, IF args[2] = NOTIN THEN ~exclude ELSE exclude,
             _get_field(self, args[1]))

\* BaseSearch._qs_search_column_in
_qs_search_column_in(self, now, node, exclude, st) ==
  ColumnInArgs(self, now, st,
               IF NodeLen(node) = 4 THEN Tail(node.toks) ELSE node.toks, node.vals,
               IF NodeLen(node) = 4 THEN ~exclude ELSE exclude)

\* the fields of one class that are generic, in registry order
GenericFields(self, cls) ==
  SelectSeq(self.fields, LAMBDA f : f.cls = cls /\ f.generic)

\* the return of _qs_search_all_columns with NOOP where it has NORESULTS
AllMerged_noop(st, exclude, subs) ==
  IF subs.raise # None THEN Result(subs.raise, NOOP, st)
  ELSE IF Len(subs.qobjects) = 0 THEN Result(None, NOOP, st)
  ELSE Result(None, merge_qobjects(subs.qobjects, exclude), st)

\* return utils.merge_qobjects(qobjects, exclude) if qobjects else
\* self.NORESULTS
AllMerged(st, exclude, subs) ==
  IF subs.raise # None THEN Result(subs.raise, NOOP, st)
  ELSE IF Len(subs.qobjects) = 0 THEN Result(None, NORESULTS, st)
  ELSE Result(None, merge_qobjects(subs.qobjects, exclude), st)

\* the num fields, searched if utils.is_number(valuestr)
AllNums(self, now, st, node, valuestr, exclude, strs) ==
  IF strs.raise # None THEN Result(strs.raise, NOOP, st)
  ELSE AllMerged(st, exclude,
         SubQueries(IF is_number(valuestr) THEN GenericFields(self, "NumField") ELSE << >>,
                    Concat(node.toks), << ":" >>, exclude, now, 1, strs.qobjects))

AllArgs(self, now, st, node, valuestr, exclude) ==
  AllNums(self, now, st, node, valuestr, exclude,
          SubQueries(GenericFields(self, "StrField"), valuestr, << ":" >>, exclude,
                     now, 1, << >>))

\* BaseSearch._qs_search_all_columns
_qs_search_all_columns(self, now, node, exclude, st) ==
  AllArgs(self, now, st, node,
          IF NodeLen(node) = 2 THEN node.toks[2] ELSE node.toks[1],
          IF NodeLen(node) = 2 THEN ~exclude ELSE exclude)

OrderByOf(st, desc, got) ==
  IF got.raise # None THEN Result(got.raise, NOOP, st)
  ELSE Result(None, NOOP,
              [st EXCEPT !._order_by =
                 Append(@, [desc |-> desc, model_field |-> got.field.model_field])])

\* _qs_orderby with desc always ''
_qs_orderby_ascending(self, now, node, exclude, st) ==
  OrderByOf(st, FALSE,
            _get_field(self, IF NodeLen(node) = 2 THEN node.toks[2] ELSE node.toks[1]))

\* BaseSearch._qs_orderby
_qs_orderby(self, now, node, exclude, st) ==
  OrderByOf(st, NodeLen(node) = 2,
            _get_field(self, IF NodeLen(node) = 2 THEN node.toks[2] ELSE node.toks[1]))

RECURSIVE _get_qobject(_, _, _, _, _), Children(_, _, _, _, _, _, _)

ChildrenIf(self, now, nodes, exclude, i, qobjects, r) ==
  IF r.raise # None THEN [raise |-> r.raise, qobjects |-> qobjects, st |-> r.st]
  ELSE Children(self, now, nodes, exclude, r.st, i + 1, Append(qobjects, r.q))

\* the loop `for childnode in ...: qobjects.append(self._get_qobject(childnode,
\* exclude))`: [raise, qobjects, st]
Children(self, now, nodes, exclude, st, i, qobjects) ==
  IF i > Len(nodes) THEN [raise |-> None, qobjects |-> qobjects, st |-> st]
  ELSE ChildrenIf(self, now, nodes, exclude, i, qobjects,
                  _get_qobject(self, now, nodes[i], exclude, st))

\* return utils.merge_qobjects(qobjects, andjoin) after the loop
Merged(c, andjoin) ==
  IF c.raise # None THEN Result(c.raise, NOOP, c.st)
  ELSE IF Len(c.qobjects) = 0 THEN Result(Err("TypeError", << >>, 0), NOOP, c.st)
  ELSE Result(None, merge_qobjects(c.qobjects, andjoin), c.st)

\* _qs_root joining its children as _qs_or does
_qs_root_orjoin(self, now, node, exclude, st) ==
  Merged(Children(self, now, node.kids, exclude, st, 1, << >>), exclude)

\* BaseSearch._qs_root
_qs_root(self, now, node, exclude, st) ==
  Merged(Children(self, now, node.kids, exclude, st, 1, << >>), ~exclude)

\* BaseSearch._qs_and
_qs_and(self, now, node, exclude, st) ==
  Merged(Children(self, now, node.kids, exclude, st, 1, << >>), ~exclude)

\* _qs_or joining as _qs_and does
_qs_or_andjoin(self, now, node, exclude, st) ==
  Merged(Children(self, now, node.kids, exclude, st, 1, << >>), ~exclude)

\* BaseSearch._qs_or
_qs_or(self, now, node, exclude, st) ==
  Merged(Children(self, now, node.kids, exclude, st, 1, << >>), exclude)

\* the operands merged and the merged Q object negated
MergedNot(c) ==
  IF c.raise # None THEN Result(c.raise, NOOP, c.st)
  ELSE IF Len(c.qobjects) = 0 THEN Result(Err("TypeError", << >>, 0), NOOP, c.st)
  ELSE Result(None, QNot(merge_qobjects(c.qobjects, FALSE)), c.st)

\* _qs_not emitting a negation of its own around its operand, whose exclude
\* flag it leaves as it is
_qs_not_wrapped(self, now, node, exclude, st) ==
  MergedNot(Children(self, now, node.kids, exclude, st, 1, << >>))

\* _qs_not without `exclude = not exclude`: its operands are always compiled
\* as excluded
_qs_not_excluded(self, now, node, exclude, st) ==
  Merged(Children(self, now, node.kids, TRUE, st, 1, << >>), FALSE)

\* BaseSearch._qs_not
_qs_not(self, now, node, exclude, st) ==
  Merged(Children(self, now, node.kids, ~exclude, st, 1, << >>), FALSE)

\* getattr(self, f'_qs_{name}')(node, exclude)
queryfunc(self, now, node, exclude, st) ==
  CASE node.name = "root" -> _qs_root(self, now, node, exclude, st)
    [] node.name = "and" -> _qs_and(self, now, node, exclude, st)
    [] node.name = "or" -> _qs_or(self, now, node, exclude, st)
    [] node.name = "not" -> _qs_not(self, now, node, exclude, st)
    [] node.name = "search_column" -> _qs_search_column(self, now, node, exclude, st)
    [] node.name = "search_column_in" -> _qs_search_column_in(self, now, node, exclude, st)
    [] node.name = "search_all_columns" ->
         _qs_search_all_columns(self, now, node, exclude, st)
    [] node.name = "orderby" -> _qs_orderby(self, now, node, exclude, st)

\* the except clauses and the tail of _get_qobject: a SearchError sets
\* _error and the method returns NORESULTS; any other exception leaves it
Handled(r) ==
  IF r.raise = None THEN Result(None, r.q, [r.st EXCEPT !._qobject = r.q])
  ELSE IF IsSearchError(r.raise)
    THEN Result(None, NORESULTS, [r.st EXCEPT !._error = r.raise, !._qobject = NORESULTS])
  ELSE Result(r.raise, NOOP, r.st)

\* BaseSearch._get_qobject on a parsed node
_get_qobject(self, now, node, exclude, st) ==
  Handled(queryfunc(self, now, node, exclude, st))

\* the symbol err.line[err.loc] and the handler of ParseException: an
\* IndexError when err.loc is the end of the line
Unparsed(searchstr, st, loc) ==
  IF loc >= Len(searchstr) THEN Result(Err("IndexError", << >>, loc), NOOP, st)
  ELSE Result(None, NORESULTS,
              [st EXCEPT !._error = Err("ParseException", << searchstr[loc + 1] >>, loc),
                         !._qobject = NORESULTS])

FromParsed(self, now, searchstr, st, parsed) ==
  IF parsed.ok THEN _get_qobject(self, now, parsed.node, FALSE, st)
  ELSE Unparsed(searchstr, st, parsed.loc)

\* BaseSearch._get_qobject on the search string
_get_qobject_str(self, now, searchstr, st) ==
  FromParsed(self, now, searchstr, st, parseString(searchstr))

(***************************************************************************)
(* Evaluation of a Q object on a row: a row maps each model field to a     *)
(* value.                                                                  *)
(***************************************************************************)
\* one lookup  field__lookup = val  on the value the row holds
Lookup(have, lookup, val) ==
  CASE lookup = "isnull" -> (have = NoValue) = (val.n = 1)
    [] lookup = "in" -> FALSE
    [] have = NoValue -> FALSE
    [] lookup = "iexact" -> lower(have.s) = lower(val.s)
    [] lookup = "icontains" -> Contains(lower(have.s), lower(val.s))
    [] lookup = "exact" -> have.n = val.n
    [] lookup = "gt" -> have.n > val.n
    [] lookup = "gte" -> have.n >= val.n
    [] lookup = "lt" -> have.n < val.n
    [] lookup = "lte" -> have.n <= val.n

RECURSIVE Matches(_, _)
\* queryset.filter(q) keeps the row
Matches(q, row) ==
  IF q.conn = "LEAF"
    THEN (IF q.field = "pk" THEN Lookup(NoValue, q.lookup, q.val)
          ELSE Lookup(row[q.field], q.lookup, q.val))
  ELSE LET inner == IF q.conn = "AND"
                      THEN \A i \in 1..Len(q.kids) : Matches(q.kids[i], row)
                      ELSE \E i \in 1..Len(q.kids) : Matches(q.kids[i], row)
       IN  IF q.neg THEN ~inner ELSE inner

(***************************************************************************)
(* The searches that are run                                               *)
(***************************************************************************)
\* the search fields of tests/conftest.py (runtime, whose modifier is
\* duration, left out)
SEARCHFIELDS ==
  << Field("StrField", << "t", "e", "s", "t", "p", "a", "t", "h" >>, "testpath", TRUE),
     Field("StrField", << "p", "a", "t", "h" >>, "filepath", FALSE),
     Field("StrField", << "t", "i", "t", "l", "e" >>, "title", FALSE),
     Field("DateField", << "d", "a", "t", "e" >>, "date", FALSE),
     Field("NumField", << "f", "a", "i", "l", "c", "o", "u", "n", "t" >>, "failcount", FALSE),
     Field("BoolField", << "r", "u", "n", "n", "i", "n", "g" >>, "running", FALSE),
     Field("StrField", << "b", "r", "a", "n", "c", "h" >>, "environment__branch", FALSE),
     Field("NumField", << "b", "u", "i", "l", "d" >>, "environment__build", FALSE) >>

\* a registry with no generic field, two of whose keys share a prefix
USERFIELDS ==
  << Field("StrField", << "u", "s", "e", "r", "n", "a", "m", "e" >>, "username", FALSE),
     Field("NumField", << "u", "s", "e", "r", "i", "d" >>, "userid", FALSE),
     Field("StrField", << "t", "i", "t", "l", "e" >>, "title", FALSE),
     Field("DateField", << "d", "a", "t", "e" >>, "date", FALSE),
     Field("NumField", << "f", "a", "i", "l", "c", "o", "u", "n", "t" >>, "failcount", FALSE),
     Field("BoolField", << "r", "u", "n", "n", "i", "n", "g" >>, "running", FALSE) >>

\* a registry with generic and non-generic fields of both classes that take
\* the generic flag
GENERICFIELDS ==
  << Field("StrField", << "t", "e", "s", "t", "p", "a", "t", "h" >>, "testpath", TRUE),
     Field("StrField", << "t", "i", "t", "l", "e" >>, "title", FALSE),
     Field("NumField", << "f", "a", "i", "l", "c", "o", "u", "n", "t" >>, "failcount", TRUE),
     Field("NumField", << "b", "u", "i", "l", "d" >>, "environment__build", FALSE),
     Field("DateField", << "d", "a", "t", "e" >>, "date", FALSE),
     Field("BoolField", << "r", "u", "n", "n", "i", "n", "g" >>, "running", FALSE) >>

Registries == { SEARCHFIELDS, USERFIELDS, GENERICFIELDS }

\* the model fields of the registries
ModelFields ==
  { "testpath", "filepath", "title", "date", "failcount", "running",
    "environment__branch", "environment__build", "username", "userid" }

\* the rows a compiled predicate is evaluated on
Rows ==
  { [f \in ModelFields |->
       CASE f = "testpath" -> StrValue(tp)
         [] f = "failcount" -> NumValue(fc * Pow10(Places))
         [] f = "running" -> BoolValue(rn)
         [] f = "date" -> DateValue(0)
         [] f \in { "environment__build", "userid" } -> NumValue(0)
         [] OTHER -> StrValue(<< "b", "a", "r" >>)] :
      tp \in { << "a", "/", "f", "o", "o", ".", "p", "y" >>, << "b", ".", "p", "y" >> }, fc \in { 1, 5 }, rn \in BOOLEAN }

\* the current time of a search
Nows == { DateTime(2026, 11, 1, 600) }

\* operator = oneOf(': = != < > >= <=')
Operators ==
  { << ":" >>, << "=" >>, << "!", "=" >>, << "<" >>, << ">" >>, << ">", "=" >>,
    << "<", "=" >> }

\* a key of each field class with values it takes, values it rejects, and none
KeyValues ==
  { [key |-> << "t", "e", "s", "t", "p", "a", "t", "h" >>, value |-> << "f", "o", "o" >>],
    [key |-> << "t", "e", "s", "t", "p", "a", "t", "h" >>, value |-> << "n", "o", "n", "e" >>],
    [key |-> << "t", "e", "s", "t", "p", "a", "t", "h" >>, value |-> << "N", "U", "L", "L" >>],
    [key |-> << "f", "a", "i", "l", "c", "o", "u", "n", "t" >>, value |-> << "3" >>],
    [key |-> << "f", "a", "i", "l", "c", "o", "u", "n", "t" >>, value |-> << "a", "b", "c" >>],
    [key |-> << "f", "a", "i", "l", "c", "o", "u", "n", "t" >>, value |-> << "n", "o", "n", "e" >>],
    [key |-> << "r", "u", "n", "n", "i", "n", "g" >>, value |-> << "t", "r", "u", "e" >>],
    [key |-> << "r", "u", "n", "n", "i", "n", "g" >>, value |-> << "m", "a", "y", "b", "e" >>],
    [key |-> << "r", "u", "n", "n", "i", "n", "g" >>, value |-> << "n", "o", "n", "e" >>],
    [key |-> << "d", "a", "t", "e" >>, value |-> << "t", "o", "d", "a", "y" >>],
    [key |-> << "d", "a", "t", "e" >>, value |-> << "n", "o", "n", "e" >>] }

\* key op value for every operator
TypedClauses ==
  { Concat(<< kv.key, op, kv.value >>) : kv \in KeyValues, op \in Operators }

\* NOT x, x AND y, x OR y, (x) as search strings
Not(x) == Concat(<< NOT, << " " >>, x >>)

And(x, y) == Concat(<< x, << " " >>, AND, << " " >>, y >>)

Or(x, y) == Concat(<< x, << " " >>, OR, << " " >>, y >>)

Juxt(x, y) == Concat(<< x, << " " >>, y >>)

Paren(x) == Concat(<< << "(" >>, x, << ")" >> >>)

\* the clauses whose value is none or null, with the operators = and :, under
\* NOT
NoneClauses ==
  { Not(Concat(<< kv.key, op, kv.value >>)) :
      kv \in { k \in KeyValues : is_none(k.value) }, op \in { << "=" >>, << ":" >> } }

\* a field with the values of an IN list, each a value the field accepts
InLists ==
  { [key |-> << "t", "e", "s", "t", "p", "a", "t", "h" >>,
     values |-> << << "f", "o", "o" >>, << "b", ".", "p", "y" >> >>],
    [key |-> << "t", "e", "s", "t", "p", "a", "t", "h" >>,
     values |-> << << "n", "o", "n", "e" >>, << "b", ".", "p", "y" >> >>],
    [key |-> << "f", "a", "i", "l", "c", "o", "u", "n", "t" >>,
     values |-> << << "1" >>, << "3" >> >>],
    [key |-> << "f", "a", "i", "l", "c", "o", "u", "n", "t" >>, values |-> << << "5" >> >>],
    [key |-> << "d", "a", "t", "e" >>,
     values |-> << << "t", "o", "d", "a", "y" >>, << "y", "e", "s", "t", "e", "r", "d", "a", "y" >> >>] }

\* key IN (v1, ..., vn)  and  key NOT IN (v1, ..., vn)
In(l) ==
  Concat(<< l.key, << " " >>, INKW, << " ", "(" >>, Join(l.values, << ",", " " >>), << ")" >> >>)

NotIn(l) ==
  Concat(<< l.key, << " ", "N", "O", "T", " ", "I", "N", " ", "(" >>,
            Join(l.values, << ",", " " >>), << ")" >> >>)

\* -x
Dash(x) == Concat(<< DASH, x >>)

\* the clause  key!=value
Unequal(key, value) == Concat(<< key, << "!", "=" >>, value >>)

\* key!=v1 AND key!=v2  for the lists of two values
UnequalClauses ==
  { And(Unequal(l.key, l.values[1]), Unequal(l.key, l.values[2])) :
      l \in { k \in InLists : Len(k.values) = 2 } }

\* the IN lists, plain and under NOT and a leading dash
InClauses ==
  UNION { { In(l), NotIn(l), Not(In(l)), Not(NotIn(l)), Dash(In(l)), Dash(NotIn(l)) } :
            l \in InLists }

\* number tokens: the text, the number n / 10^d it denotes without its sign,
\* and the digits d after its decimal point
NumTokens ==
  { [text |-> << "5" >>, n |-> 5, d |-> 0],
    [text |-> << "-", "5" >>, n |-> 5, d |-> 0],
    [text |-> << "0" >>, n |-> 0, d |-> 0],
    [text |-> << "1", ".", "5", "0" >>, n |-> 150, d |-> 2],
    [text |-> << "-", "1", ".", "5" >>, n |-> 15, d |-> 1],
    [text |-> << "1", "2", ".", "0" >>, n |-> 120, d |-> 1] }

\* number tokens with a unit suffix: the text, the number n / 10^d it
\* denotes, and the digits written after its decimal point
UnitTokens ==
  { [text |-> << "2", "k" >>, n |-> 2000, d |-> 0, digits |-> 0],
    [text |-> << "1", ".", "5", "k" >>, n |-> 1500, d |-> 0, digits |-> 1] }

\* failcount:token
Fuzzy(text) == Concat(<< << "f", "a", "i", "l", "c", "o", "u", "n", "t", ":" >>, text >>)

FuzzyClauses ==
  { Fuzzy(t.text) : t \in NumTokens } \cup { Fuzzy(t.text) : t \in UnitTokens }

\* date tokens of the granularity of a year (mo = 0) or of a month: the
\* text as written in the clause, and the year and month it names
DateTokens ==
  { [text |-> << "2", "0", "2", "4" >>, y |-> 2024, mo |-> 0],
    [text |-> << "1", "9", "9", "9" >>, y |-> 1999, mo |-> 0],
    [text |-> << "2", "0", "7", "5" >>, y |-> 2075, mo |-> 0],
    [text |-> << "2", "0", "2", "4", "-", "0", "3" >>, y |-> 2024, mo |-> 3],
    [text |-> << "1", "9", "9", "9", "-", "1", "2" >>, y |-> 1999, mo |-> 12],
    [text |-> << "\"", "m", "a", "r", "c", "h", " ", "2", "0", "2", "4", "\"" >>, y |-> 2024, mo |-> 3],
    [text |-> << "\"", "F", "e", "b", "r", "u", "a", "r", "y", " ", "2", "0", "2", "4", "\"" >>, y |-> 2024, mo |-> 2],
    [text |-> << "\"", "d", "e", "c", " ", "1", "9", "9", "9", "\"" >>, y |-> 1999, mo |-> 12],
    [text |-> << "\"", "d", "e", "c", "e", "m", "b", "e", "r", " ", "2", "0", "2", "6", "\"" >>, y |-> 2026, mo |-> 12] }

\* date tokens written with underscores, and the same with spaces
UnderscoreTokens ==
  { [text |-> << "l", "a", "s", "t", "_", "w", "e", "e", "k" >>,
     spaced |-> << "l", "a", "s", "t", " ", "w", "e", "e", "k" >>],
    [text |-> << "t", "h", "i", "s", "_", "m", "o", "n", "t", "h" >>,
     spaced |-> << "t", "h", "i", "s", " ", "m", "o", "n", "t", "h" >>],
    [text |-> << "m", "a", "r", "c", "h", "_", "2", "0", "2", "4" >>,
     spaced |-> << "m", "a", "r", "c", "h", " ", "2", "0", "2", "4" >>],
    [text |-> << "n", "e", "x", "t", "_", "y", "e", "a", "r" >>,
     spaced |-> << "n", "e", "x", "t", " ", "y", "e", "a", "r" >>] }

\* "text"
Quoted(text) == Concat(<< << "\"" >>, text, << "\"" >> >>)

\* date=token
DateClause(text) == Concat(<< << "d", "a", "t", "e", "=" >>, text >>)

DateClauses ==
  { DateClause(t.text) : t \in DateTokens }
  \cup { DateClause(t.text) : t \in UnderscoreTokens }
  \cup { DateClause(Quoted(t.spaced)) : t \in UnderscoreTokens }

\* date values of day, week, month and year granularity, with the range
\* [min, max) each names on 2026-11-01, a Sunday
DateRanges ==
  { [text |-> << "t", "o", "d", "a", "y" >>,
     min |-> DateTime(2026, 11, 1, 0), max |-> DateTime(2026, 11, 2, 0)],
    [text |-> << "y", "e", "s", "t", "e", "r", "d", "a", "y" >>,
     min |-> DateTime(2026, 10, 31, 0), max |-> DateTime(2026, 11, 1, 0)],
    [text |-> << "\"", "l", "a", "s", "t", " ", "w", "e", "e", "k", "\"" >>,
     min |-> DateTime(2026, 10, 25, 0), max |-> DateTime(2026, 11, 1, 0)],
    [text |-> << "\"", "m", "a", "r", "c", "h", " ", "2", "0", "2", "4", "\"" >>,
     min |-> DateTime(2024, 3, 1, 0), max |-> DateTime(2024, 4, 1, 0)],
    [text |-> << "1", "9", "9", "9" >>,
     min |-> DateTime(1999, 1, 1, 0), max |-> DateTime(2000, 1, 1, 0)] }

\* date values of month granularity: months before the current date, the
\* current month, and months less and more than a year after it
MonthTokens ==
  { << "m", "a", "r", "c", "h", " ", "2", "0", "2", "4" >>,
    << "t", "h", "i", "s", " ", "m", "o", "n", "t", "h" >>,
    << "n", "e", "x", "t", " ", "m", "o", "n", "t", "h" >>,
    << "d", "e", "c", "e", "m", "b", "e", "r", " ", "2", "0", "2", "6" >>,
    << "m", "a", "r", "c", "h", " ", "2", "0", "2", "7" >>,
    << "d", "e", "c", "e", "m", "b", "e", "r", " ", "2", "0", "2", "8" >> }

MonthClauses == { DateClause(Quoted(t)) : t \in MonthTokens }

\* the operators a date field is compared with
DateOperators == { << ">" >>, << ">", "=" >>, << "<" >>, << "<", "=" >>, << "=" >> }

\* date op value
DateOp(op, text) == Concat(<< << "d", "a", "t", "e" >>, op, text >>)

DateOpClauses ==
  { DateOp(op, r.text) : op \in DateOperators, r \in DateRanges }
  \cup { Not(DateOp(op, r.text)) : op \in DateOperators, r \in DateRanges }

\* comparisons of every field class, with a value and with none, under every
\* operator, and the contains-comparison of a number
LeafClauses ==
  { Concat(<< kv.key, op, kv.value >>) :
      kv \in { k \in KeyValues :
                 k.value \in { << "f", "o", "o" >>, << "3" >>, << "t", "r", "u", "e" >>,
                               << "t", "o", "d", "a", "y" >>, << "n", "o", "n", "e" >> } },
      op \in Operators }
  \cup { Fuzzy(<< "5" >>) }

\* a comparison with its own `-`, under NOT, and with both
NegatedClauses ==
  { Dash(c) : c \in LeafClauses }
  \cup { Not(c) : c \in LeafClauses }
  \cup { Not(Dash(c)) : c \in LeafClauses }

\* bare free-text terms: words, a number, a quoted phrase
FreeTerms ==
  { << "f", "o", "o" >>,
    << "b", "a", "r" >>,
    << "5" >>,
    << "\"", "f", "o", "o", " ", "b", "a", "r", "\"" >> }

\* free-text terms: words, numbers with and without decimals
SearchTerms ==
  { << "f", "o", "o" >>, << "5" >>, << "1", ".", "5", "0" >>, << "b", ".", "p", "y" >> }

\* a free-text term alone and under NOT
TermClauses == SearchTerms \cup { Not(t) : t \in SearchTerms }

\* the free-text terms none and null, in several letter cases
NoneTerms ==
  { << "n", "o", "n", "e" >>, << "N", "o", "n", "e" >>, << "n", "u", "l", "l" >>,
    << "N", "U", "L", "L" >> }

\* two free-text terms next to each other and joined by AND
TermPairs ==
  { Juxt(a, b) : a \in FreeTerms, b \in FreeTerms }
  \cup { And(a, b) : a \in FreeTerms, b \in FreeTerms }

\* order items: [desc, key]; fail is a prefix of failcount
OrderLists ==
  { << [desc |-> TRUE, key |-> << "d", "a", "t", "e" >>],
       [desc |-> FALSE, key |-> << "t", "i", "t", "l", "e" >>] >>,
    << [desc |-> FALSE, key |-> << "t", "i", "t", "l", "e" >>] >>,
    << [desc |-> TRUE, key |-> << "f", "a", "i", "l" >>] >>,
    << [desc |-> FALSE, key |-> << "d", "a", "t", "e" >>],
       [desc |-> TRUE, key |-> << "t", "i", "t", "l", "e" >>],
       [desc |-> TRUE, key |-> << "d", "a", "t", "e" >>] >> }

\* the queries an ORDER BY clause is written after; the last is no query
OrderBases ==
  { << "t", "i", "t", "l", "e", ":", "f", "o", "o" >>,
    << "f", "o", "o" >>,
    << "f", "a", "i", "l", "c", "o", "u", "n", "t", ">", "3" >>,
    << >> }

\* order items one of whose keys no registry holds
UnknownOrderLists ==
  { << [desc |-> TRUE, key |-> << "d", "a", "t", "e" >>],
       [desc |-> FALSE, key |-> << "b", "o", "g", "u", "s" >>],
       [desc |-> FALSE, key |-> << "t", "i", "t", "l", "e" >>] >>,
    << [desc |-> FALSE, key |-> << "b", "o", "g", "u", "s" >>] >>,
    << [desc |-> FALSE, key |-> << "t", "i", "t", "l", "e" >>],
       [desc |-> TRUE, key |-> << "b", "o", "g", "u", "s" >>] >> }

RECURSIVE OrderItems(_, _)
\* the order items of l from the i-th on, separated by ", "
OrderItems(l, i) ==
  (IF l[i].desc THEN << "-" >> ELSE << >>) \o l[i].key
    \o (IF i < Len(l) THEN << ",", " " >> \o OrderItems(l, i + 1) ELSE << >>)

\* base ORDER BY items
Ordered(base, l) ==
  (IF base = << >> THEN << >> ELSE base \o << " " >>)
    \o << "O", "R", "D", "E", "R", " ", "B", "Y", " " >> \o OrderItems(l, 1)

OrderClauses ==
  { Ordered(b, l) : b \in OrderBases, l \in OrderLists \cup UnknownOrderLists }

\* exact keys, prefixes, inner substrings, other case, unknown keys
LookupKeys ==
  { << "b", "o", "g", "u", "s" >>,
    << "u", "s", "e", "r" >>,
    << "u", "s", "e", "r", "n" >>,
    << "U", "S", "E", "R", "N", "A", "M", "E" >>,
    << "n", "a", "m", "e" >>,
    << "i", "d" >>,
    << "T", "E", "S", "T", "P", "A", "T", "H" >>,
    << "t", "e", "s", "t" >>,
    << "i", "t", "l" >>,
    << "p", "a", "t", "h" >>,
    << "e" >> }

LookupClauses == { Concat(<< key, << ":" >>, << "x" >> >>) : key \in LookupKeys }

\* free text, negated or not, words and numbers
FreeTexts ==
  { << "f", "o", "o" >>,
    << "-", "f", "o", "o" >>,
    << "N", "O", "T", " ", "f", "o", "o" >>,
    << "5" >>,
    << "-", "5" >>,
    << "\"", "f", "o", "o", " ", "b", "a", "r", "\"" >>,
    << "f", "o", "o", " ", "b", "a", "r" >>,
    << "N", "O", "T", " ", "(", "f", "o", "o", " ", "O", "R", " ", "5", ")" >>,
    << "f", "o", "o", " ", "o", "r", "d", "e", "r", " ", "b", "y", " ", "-", "t", "i", "t", "l", "e", ",", " ", "d", "a", "t", "e" >> }

\* strings the grammar rejects, at the end of the string or before it
Malformed ==
  { << "(" >>,
    << "(", " ", "f", "o", "o" >>,
    << "f", "o", "o", " ", "A", "N", "D", " ", "(", "b", "a", "r" >>,
    << "f", "o", "o", " ", ")" >>,
    << "f", "o", "o", ",", " ", "b", "a", "r" >>,
    << "t", "i", "t", "l", "e", " ", "i", "n", " ", "(", "a", "," >> }

\* blank search strings
Blanks == { << >>, << " ", " " >> }

\* the number of clauses that expressions are built from
MaxAtoms == 4

\* a comparison on a string field, one on a number field, free text, an IN
\* list, a comparison on a boolean field and one on a date field
AtomList ==
  << << "t", "e", "s", "t", "p", "a", "t", "h", ":", "f", "o", "o" >>,
     << "f", "a", "i", "l", "c", "o", "u", "n", "t", ">", "3" >>,
     << "f", "o", "o" >>,
     << "t", "i", "t", "l", "e", " ", "i", "n", " ", "(", "a", ",", " ", "b", ")" >>,
     << "r", "u", "n", "n", "i", "n", "g", "=", "t", "r", "u", "e" >>,
     << "d", "a", "t", "e", "=", "t", "o", "d", "a", "y" >> >>

Atoms == { AtomList[i] : i \in 1..Min(MaxAtoms, Len(AtomList)) }

\* a clause on a field that is not registered
Faulty == << "b", "o", "g", "u", "s", ":", "1" >>

\* the expressions that are negated twice: every clause and the AND and OR
\* compounds of two clauses
Negatable ==
  Atoms
  \cup { Paren(Or(a, b)) : a \in Atoms, b \in Atoms }
  \cup { Paren(And(a, b)) : a \in Atoms, b \in Atoms }

\* a failing clause as an operand of OR, of AND and of a negated nest
Nests ==
  { Or(a, Faulty) : a \in Atoms }
  \cup { Or(Faulty, a) : a \in Atoms }
  \cup { And(a, Faulty) : a \in Atoms }
  \cup { Not(Paren(And(Faulty, a))) : a \in Atoms }

\* expressions over the clauses: negations, double negations, both sides of
\* De Morgan's laws, and juxtaposition next to OR with and without the
\* grouping
Expressions ==
  Atoms
  \cup { Not(a) : a \in Atoms }
  \cup { Not(Not(x)) : x \in Negatable }
  \cup { Or(a, b) : a \in Atoms, b \in Atoms }
  \cup { Not(Paren(And(a, b))) : a \in Atoms, b \in Atoms }
  \cup { Or(Paren(Not(a)), Paren(Not(b))) : a \in Atoms, b \in Atoms }
  \cup { Not(Paren(Or(a, b))) : a \in Atoms, b \in Atoms }
  \cup { And(Paren(Not(a)), Paren(Not(b))) : a \in Atoms, b \in Atoms }
  \cup { Juxt(Or(a, b), c) : a \in Atoms, b \in Atoms, c \in Atoms }
  \cup { Or(a, Paren(And(b, c))) : a \in Atoms, b \in Atoms, c \in Atoms }
  \cup { Or(Juxt(a, b), c) : a \in Atoms, b \in Atoms, c \in Atoms }
  \cup { Or(Paren(And(a, b)), c) : a \in Atoms, b \in Atoms, c \in Atoms }
  \cup Nests

\* every search string a first call is made with
SearchStrings ==
  TypedClauses \cup NoneClauses \cup InClauses \cup UnequalClauses
  \cup FuzzyClauses \cup DateClauses \cup TermPairs \cup OrderClauses
  \cup NegatedClauses \cup TermClauses \cup DateOpClauses \cup MonthClauses
  \cup NoneTerms
  \cup LookupClauses \cup FreeTexts \cup Malformed \cup Blanks
  \cup Expressions

\* the search strings of the calls that follow on the same object
Repeats ==
  { << >>, << "b", "o", "g", "u", "s", ":", "1" >>, << "t", "e", "s", "t", "p", "a", "t", "h", ":", "f", "o", "o", " ", "o", "r", "d", "e", "r", " ", "b", "y", " ", "t", "i", "t", "l", "e" >> }

\* the number of get_queryset calls made on one search object
MaxCalls == 2

\* the threads that call get_queryset on one search object
Threads == { "t1", "t2" }
\* the search strings two threads call with at the same time
ConcStrings ==
  { << >>,
    << "b", "o", "g", "u", "s", ":", "1" >>,
    << "t", "e", "s", "t", "p", "a", "t", "h", ":", "f", "o", "o" >>,
    << "f", "o", "o", " ", "o", "r", "d", "e", "r", " ", "b", "y", " ", "t", "i", "t", "l", "e" >> }

(***************************************************************************)
(* The search object and the calls made on it                              *)
(***************************************************************************)
VARIABLES
  self,        \* the search object's fields and allow_partial_fieldnames
  now,         \* the current time
  _searchstr,  \* self._searchstr
  _error,      \* self._error
  _order_by,   \* self._order_by
  _qobject,    \* self._qobject
  pc,          \* where each thread is in get_queryset
  arg,         \* the searchstr argument of each thread's call
  ret,         \* each thread's queryset, or the exception its call raised
  calls        \* the number of calls each thread has begun

vars == << self, now, _searchstr, _error, _order_by, _qobject, pc, arg, ret, calls >>

\* a queryset: the Q object it was filtered with, if any, and its order_by
Queryset(filtered, q, order_by) ==
  [kind |-> "queryset", filtered |-> filtered, q |-> q, order_by |-> order_by,
   raise |-> None]

\* an exception leaving get_queryset
Exception(e) ==
  [kind |-> "raised", filtered |-> FALSE, q |-> NOOP, order_by |-> << >>, raise |-> e]

\* if searchstr, without the test of searchstr.strip()
HasSearch_unstripped(searchstr) == searchstr # << >>

\* if searchstr and searchstr.strip()
HasSearch(searchstr) == ~IsBlank(searchstr)

\* BaseSearch.__init__ for the object, and the arguments of the first calls
InitObject(registries, partials, firsts) ==
  /\ self \in { BaseSearch(fields, p) : fields \in registries, p \in partials }
  /\ now \in Nows
  /\ _searchstr = << >>
  /\ _error = None
  /\ _order_by = << >>
  /\ _qobject = NOOP
  /\ pc = [t \in Threads |-> "idle"]
  /\ arg \in firsts
  /\ ret = [t \in Threads |-> Queryset(FALSE, NOOP, << >>)]
  /\ calls = [t \in Threads |-> 0]

\* one thread calls; the other never does
Init ==
  InitObject(Registries, BOOLEAN,
             { [t \in Threads |-> IF t = "t1" THEN s ELSE << >>] : s \in SearchStrings })

\* qobject = self._get_qobject(searchstr) has returned or raised; then
\* queryset.filter(qobject) and queryset.order_by(*self._order_by)
Searched(t, r) ==
  /\ _error' = r.st._error
  /\ _order_by' = r.st._order_by
  /\ _qobject' = r.st._qobject
  /\ IF r.raise # None
       THEN /\ pc' = [pc EXCEPT ![t] = "raised"]
            /\ ret' = [ret EXCEPT ![t] = Exception(r.raise)]
       ELSE /\ pc' = [pc EXCEPT ![t] = "done"]
            /\ ret' = [ret EXCEPT ![t] = Queryset(TRUE, r.q, r.st._order_by)]

\* the search string is blank: the queryset is returned as it was given
Unsearched(t) ==
  /\ _error' = None
  /\ _order_by' = << >>
  /\ pc' = [pc EXCEPT ![t] = "done"]
  /\ ret' = [ret EXCEPT ![t] = Queryset(FALSE, NOOP, << >>)]
  /\ UNCHANGED _qobject

\* get_queryset without its reset of self._order_by and self._error
get_queryset_kept(t) ==
  /\ pc[t] = "idle"
  /\ calls' = [calls EXCEPT ![t] = @ + 1]
  /\ _searchstr' = arg[t]
  /\ IF HasSearch(arg[t])
       THEN Searched(t, _get_qobject_str(self, now, arg[t], Attrs(_error, _order_by, _qobject)))
       ELSE /\ pc' = [pc EXCEPT ![t] = "done"]
            /\ ret' = [ret EXCEPT ![t] = Queryset(FALSE, NOOP, _order_by)]
            /\ UNCHANGED << _error, _order_by, _qobject >>
  /\ UNCHANGED << self, now, arg >>

\* BaseSearch.get_queryset(queryset, searchstr), from call to return
get_queryset(t) ==
  /\ pc[t] = "idle"
  /\ calls' = [calls EXCEPT ![t] = @ + 1]
  /\ _searchstr' = arg[t]
  /\ IF HasSearch(arg[t])
       THEN Searched(t, _get_qobject_str(self, now, arg[t], Attrs(None, << >>, _qobject)))
       ELSE Unsearched(t)
  /\ UNCHANGED << self, now, arg >>

\* the caller makes another call on the same object
NextCall(t) ==
  /\ pc[t] \in { "done", "raised" }
  /\ calls[t] < MaxCalls
  /\ arg' \in { [arg EXCEPT ![t] = s] : s \in Repeats }
  /\ pc' = [pc EXCEPT ![t] = "idle"]
  /\ UNCHANGED << self, now, _searchstr, _error, _order_by, _qobject, ret, calls >>

Next ==
  \/ get_queryset("t1")
  \/ NextCall("t1")

Spec == Init /\ [][Next]_vars

(***************************************************************************)
(* Two threads calling get_queryset on one search object, a statement      *)
(* group at a time                                                         *)
(***************************************************************************)
InitConc == InitObject({ SEARCHFIELDS }, { TRUE }, [Threads -> ConcStrings])

\* self._searchstr = searchstr; self._order_by = []; self._error = None
Reset(t) ==
  /\ pc[t] = "idle"
  /\ calls' = [calls EXCEPT ![t] = @ + 1]
  /\ _searchstr' = arg[t]
  /\ _order_by' = << >>
  /\ _error' = None
  /\ ret' = [ret EXCEPT ![t] = Queryset(FALSE, NOOP, << >>)]
  /\ pc' = [pc EXCEPT ![t] = IF HasSearch(arg[t]) THEN "compile" ELSE "order"]
  /\ UNCHANGED << self, now, _qobject, arg >>

Compiled(t, r) ==
  /\ _error' = r.st._error
  /\ _order_by' = r.st._order_by
  /\ _qobject' = r.st._qobject
  /\ IF r.raise # None
       THEN /\ pc' = [pc EXCEPT ![t] = "raised"]
            /\ ret' = [ret EXCEPT ![t] = Exception(r.raise)]
       ELSE /\ pc' = [pc EXCEPT ![t] = "return"]
            /\ UNCHANGED ret

\* self._get_qobject(searchstr) up to its assignment of self._qobject: it
\* appends to self._order_by and assigns self._error as it goes
Compile(t) ==
  /\ pc[t] = "compile"
  /\ Compiled(t, _get_qobject_str(self, now, arg[t], Attrs(_error, _order_by, _qobject)))
  /\ UNCHANGED << self, now, _searchstr, arg, calls >>

\* return self._qobject, and queryset = queryset.filter(qobject)
Filter(t) ==
  /\ pc[t] = "return"
  /\ ret' = [ret EXCEPT ![t] = Queryset(TRUE, _qobject, << >>)]
  /\ pc' = [pc EXCEPT ![t] = "order"]
  /\ UNCHANGED << self, now, _searchstr, _error, _order_by, _qobject, arg, calls >>

\* if self._order_by: queryset = queryset.order_by(*self._order_by), and
\* return queryset
OrderBy(t) ==
  /\ pc[t] = "order"
  /\ ret' = [ret EXCEPT ![t].order_by = _order_by]
  /\ pc' = [pc EXCEPT ![t] = "done"]
  /\ UNCHANGED << self, now, _searchstr, _error, _order_by, _qobject, arg, calls >>

NextConc ==
  \E t \in Threads :
    \/ Reset(t)
    \/ Compile(t)
    \/ Filter(t)
    \/ OrderBy(t)

SpecConc == InitConc /\ [][NextConc]_vars

(***************************************************************************)
(* Properties                                                              *)
(***************************************************************************)
\* the call of thread t has returned a queryset
Done(t) == pc[t] = "done"

\* queryset.filter(q) keeps no row
MatchesNoRow(q) == \A row \in Rows : ~Matches(q, row)

\* the error of a field lookup, an operator or a value coercion
IsClauseError(e) ==
  e.kind \in { "UnknownField", "AmbiguousField", "InvalidOperatorForString",
               "InvalidOperatorForNone", "InvalidBoolean", "InvalidDate",
               "UnknownNumberFormat", "UnknownDateFormat" }

\* C1: when a clause of the query has raised a field-lookup, operator or
\* value-coercion error, the error is recorded and the queryset returned for
\* the whole query is filtered with a predicate that matches no row,
\* wherever the failing clause sits
C1_ErrorMeansNoResults ==
  (Done("t1") /\ IsClauseError(_error)) =>
    (ret["t1"].filtered /\ MatchesNoRow(ret["t1"].q))

\* C2: no call of get_queryset ends with an exception raised to the caller
C2_NoExceptionEscapes == pc["t1"] # "raised"

\* the queryset get_queryset(queryset, searchstr) returns when no other call
\* runs on the search object
Alone(searchstr) ==
  IF HasSearch(searchstr)
    THEN LET r == _get_qobject_str(self, now, searchstr, Attrs(None, << >>, NOOP))
         IN  Queryset(TRUE, r.q, r.st._order_by)
    ELSE Queryset(FALSE, NOOP, << >>)

\* C3: when two calls of get_queryset on one search object interleave, each
\* returns the queryset (predicate and order_by) it returns when run alone
C3_NoInterference ==
  \A t \in Threads : Done(t) => ret[t] = Alone(arg[t])

\* C4: for every expression X (a comparison, an IN list, free text, an AND
\* or OR compound), the queryset of NOT NOT X is filtered with the predicate
\* X compiles to
C4_DoubleNegation ==
  \A x \in Negatable :
    (arg["t1"] = Not(Not(x)) /\ Done("t1")) => ret["t1"] = Alone(x)

\* NOT NOT (testpath:foo OR failcount>3) has compiled to a disjunction
C4_Witness ==
  /\ arg["t1"] = Not(Not(Paren(Or(AtomList[1], AtomList[2]))))
  /\ Done("t1")
  /\ _error = None
  /\ ret["t1"].q.conn = "OR"
  /\ Len(ret["t1"].q.kids) = 2

\* C5: for all clauses A and B, NOT (A AND B) compiles to the predicate of
\* (NOT A) OR (NOT B), which is the OR of the predicates of NOT A and NOT B;
\* NOT (A OR B) compiles to the predicate of (NOT A) AND (NOT B), which is
\* the AND of the predicates of NOT A and NOT B
C5_DeMorgan ==
  \A a \in Atoms, b \in Atoms :
    /\ (arg["t1"] = Not(Paren(And(a, b))) /\ Done("t1")) =>
         /\ ret["t1"] = Alone(Or(Paren(Not(a)), Paren(Not(b))))
         /\ ret["t1"].q = QOr(Alone(Not(a)).q, Alone(Not(b)).q)
    /\ (arg["t1"] = Not(Paren(Or(a, b))) /\ Done("t1")) =>
         /\ ret["t1"] = Alone(And(Paren(Not(a)), Paren(Not(b))))
         /\ ret["t1"].q = QAnd(Alone(Not(a)).q, Alone(Not(b)).q)

\* NOT (testpath:foo AND failcount>3) has compiled to the OR of two negated
\* comparisons
C5_Witness ==
  /\ arg["t1"] = Not(Paren(And(AtomList[1], AtomList[2])))
  /\ Done("t1")
  /\ _error = None
  /\ ret["t1"].q.conn = "OR"
  /\ Len(ret["t1"].q.kids) = 2
  /\ \A i \in 1..2 : ret["t1"].q.kids[i].neg

\* queryset.filter(p) and queryset.filter(q) keep the same rows
SameRows(p, q) == \A row \in Rows : Matches(p, row) = Matches(q, row)

\* C6: for all clauses a, b, c the query `a OR b c` keeps the rows that
\* `a OR (b AND c)` keeps, and `a b OR c` the rows that `(a AND b) OR c`
\* keeps
C6_JuxtapositionBindsTighter ==
  \A a \in Atoms, b \in Atoms, c \in Atoms :
    /\ (arg["t1"] = Juxt(Or(a, b), c) /\ Done("t1")) =>
         SameRows(ret["t1"].q, Alone(Or(a, Paren(And(b, c)))).q)
    /\ (arg["t1"] = Or(Juxt(a, b), c) /\ Done("t1")) =>
         SameRows(ret["t1"].q, Alone(Or(Paren(And(a, b)), c)).q)

\* no field of the search object is marked generic
NoGeneric == \A i \in 1..Len(self.fields) : ~self.fields[i].generic

\* the search string is one free-text term, negated by NOT or not
IsBareFreeText(node) ==
  /\ Len(node.kids) = 1
  /\ \/ node.kids[1].name = "search_all_columns"
     \/ /\ node.kids[1].name = "not"
        /\ node.kids[1].kids[1].name = "search_all_columns"

\* C7: with no generic field, a bare free-text query, negated or not,
\* compiles to NORESULTS, and no query made of free text only keeps a row
C7_NoGenericNoResults ==
  (Done("t1") /\ NoGeneric) =>
    /\ (parseString(arg["t1"]).ok /\ IsBareFreeText(parseString(arg["t1"]).node)) =>
         (ret["t1"].filtered /\ ret["t1"].q = NORESULTS)
    /\ (arg["t1"] \in FreeTexts /\ HasSearch(arg["t1"])) =>
         (ret["t1"].filtered /\ MatchesNoRow(ret["t1"].q))

\* NOT foo on a search object without generic fields has compiled to
\* NORESULTS
C7_Witness ==
  /\ NoGeneric
  /\ arg["t1"] = Not(<< "f", "o", "o" >>)
  /\ Done("t1")
  /\ ret["t1"].q = NORESULTS

\* the clause  key:x
KeyClause(key) == Concat(<< key, << ":" >>, << "x" >> >>)

\* the registered fields whose search key is key, and those whose search key
\* holds key, letter case aside
Equal(key) ==
  { i \in 1..Len(self.fields) : lower(self.fields[i].search_key) = lower(key) }

Holding(key) ==
  { i \in 1..Len(self.fields) :
      Contains(lower(self.fields[i].search_key), lower(key)) }

\* the fields a key matches: the one it names, else, with partial matching
\* enabled, those that hold it
MatchesOf(key) ==
  IF Equal(key) # { } THEN Equal(key)
  ELSE IF self.allow_partial_fieldnames THEN Holding(key)
  ELSE { }

\* C8: the outcome of a field lookup is determined by the number of fields
\* the key matches, letter case aside: none is an UnknownField error with
\* NORESULTS, two or more an AmbiguousField error with NORESULTS, and one
\* resolves to that field
C8_LookupByMatchCount ==
  \A key \in LookupKeys :
    (arg["t1"] = KeyClause(key) /\ Done("t1")) =>
      /\ Cardinality(MatchesOf(key)) = 0 =>
           /\ _error = SearchError("UnknownField", key)
           /\ ret["t1"].q = NORESULTS
      /\ Cardinality(MatchesOf(key)) >= 2 =>
           /\ _error = SearchError("AmbiguousField", key)
           /\ ret["t1"].q = NORESULTS
      /\ Cardinality(MatchesOf(key)) = 1 =>
           /\ _error.kind \notin { "UnknownField", "AmbiguousField" }
           /\ \A i \in MatchesOf(key) :
                ret["t1"] = Alone(KeyClause(self.fields[i].search_key))

\* user:x with username and userid registered and partial matching enabled
\* has ended with an AmbiguousField error
C8_Witness ==
  /\ arg["t1"] = KeyClause(<< "u", "s", "e", "r" >>)
  /\ Done("t1")
  /\ self.allow_partial_fieldnames
  /\ Cardinality(Holding(<< "u", "s", "e", "r" >>)) = 2
  /\ _error = SearchError("AmbiguousField", << "u", "s", "e", "r" >>)
  /\ ret["t1"].q = NORESULTS

\* the registered fields whose search key starts with key, letter case aside
PrefixOf(key) ==
  { i \in 1..Len(self.fields) :
      StartsWith(lower(self.fields[i].search_key), lower(key)) }

\* C9: with partial matching enabled, a key that is neither a registered
\* search key nor a prefix of one ends in an UnknownField error with
\* NORESULTS, also when registered search keys hold it further in
C9_PartialIsPrefix ==
  \A key \in LookupKeys :
    (/\ arg["t1"] = KeyClause(key)
     /\ Done("t1")
     /\ self.allow_partial_fieldnames
     /\ PrefixOf(key) = { }) =>
      /\ _error = SearchError("UnknownField", key)
      /\ ret["t1"].q = NORESULTS

\* the operators each field type allows
AllowedOperators(cls) ==
  CASE cls = "BoolField" -> { << "=" >>, << ":" >> }
    [] cls = "NumField" ->
         { << "=" >>, << ">" >>, << ">", "=" >>, << "<", "=" >>, << "<" >>, << ":" >> }
    [] cls = "DateField" ->
         { << "=" >>, << ">" >>, << ">", "=" >>, << "<", "=" >>, << "<" >> }
    [] cls = "StrField" -> { << "=" >>, << ":" >> }

\* an error about the operator of a clause
IsOperatorError(e) ==
  e.kind \in { "InvalidOperatorForString", "InvalidOperatorForNone" }

\* C10: a clause  field op value  whose operator the type of the field does
\* not allow ends in an invalid-operator error, and the queryset is filtered
\* with NORESULTS: no comparison is emitted for it
C10_OperatorOutsideTypeIsError ==
  (arg["t1"] \in TypedClauses /\ pc["t1"] \in { "done", "raised" }) =>
    \A kv \in KeyValues, op \in Operators :
      arg["t1"] = Concat(<< kv.key, op, kv.value >>) =>
        \A i \in Equal(kv.key) :
          op \notin AllowedOperators(self.fields[i].cls) =>
            /\ Done("t1")
            /\ IsOperatorError(_error)
            /\ ret["t1"].q = NORESULTS


\* the predicate  model_field IS NULL  of the field registered under key
IsNull(key) ==
  LET i == CHOOSE i \in Equal(key) : TRUE
  IN  Q1(self.fields[i].model_field, "isnull", BoolValue(TRUE))

\* C11: a clause  field op value  whose value is none or null in any letter
\* case compiles, for a field of every type, to  model_field IS NULL  when
\* the operator is = or : (negated under NOT), with no error from the
\* type's modifier; with every other operator it ends in an
\* invalid-operator-for-None error and NORESULTS
C11_NoneIsNull ==
  ((arg["t1"] \in TypedClauses \cup NoneClauses) /\ pc["t1"] \in { "done", "raised" }) =>
    \A kv \in KeyValues, op \in Operators :
      (is_none(kv.value) /\ Equal(kv.key) # { }) =>
        /\ (arg["t1"] = Concat(<< kv.key, op, kv.value >>) /\ op \in { << "=" >>, << ":" >> }) =>
             /\ Done("t1")
             /\ _error = None
             /\ ret["t1"].q = IsNull(kv.key)
        /\ (arg["t1"] = Not(Concat(<< kv.key, op, kv.value >>))
            /\ op \in { << "=" >>, << ":" >> }) =>
             /\ Done("t1")
             /\ _error = None
             /\ ret["t1"].q = QNot(IsNull(kv.key))
        /\ (arg["t1"] = Concat(<< kv.key, op, kv.value >>) /\ op \notin { << "=" >>, << ":" >> }) =>
             /\ Done("t1")
             /\ _error = SearchError("InvalidOperatorForNone", op)
             /\ ret["t1"].q = NORESULTS

\* the clause  key=value
EqualTo(key, value) == Concat(<< key, << "=" >>, value >>)

\* the predicates that key=v compiles to, for every value v of the list,
\* each under NOT when negated
Equalities(l, negated) ==
  [i \in 1..Len(l.values) |->
     Alone(IF negated THEN Not(EqualTo(l.key, l.values[i]))
           ELSE EqualTo(l.key, l.values[i])).q]

\* C12: for a registered key and values its field accepts,
\* key IN (v1, ..., vn) compiles without error to the OR of the predicates of
\* key=v1 ... key=vn; key NOT IN (v1, ..., vn) compiles to the AND of the
\* predicates of NOT key=vi, which keeps the rows the IN predicate drops;
\* a NOT or a leading dash before NOT IN gives the queryset of the plain
\* IN, and before IN the queryset of NOT IN
C12_InIsOrOfEqualities ==
  (arg["t1"] \in InClauses /\ pc["t1"] \in { "done", "raised" }) =>
    \A l \in { k \in InLists : Equal(k.key) # { } } :
         /\ arg["t1"] \in { In(l), NotIn(l), Not(In(l)), Not(NotIn(l)), Dash(In(l)),
                            Dash(NotIn(l)) } =>
              (Done("t1") /\ _error = None)
         /\ arg["t1"] = In(l) =>
              ret["t1"].q = merge_qobjects(Equalities(l, FALSE), FALSE)
         /\ arg["t1"] = NotIn(l) =>
              /\ ret["t1"].q = merge_qobjects(Equalities(l, TRUE), TRUE)
              /\ \A row \in Rows :
                   Matches(ret["t1"].q, row) = ~Matches(Alone(In(l)).q, row)
         /\ arg["t1"] \in { Not(NotIn(l)), Dash(NotIn(l)) } => ret["t1"] = Alone(In(l))
         /\ arg["t1"] \in { Not(In(l)), Dash(In(l)) } => ret["t1"] = Alone(NotIn(l))

\* NOT failcount NOT IN (1, 3) has compiled to the OR of two equalities,
\* neither negated
C12_Witness ==
  /\ \E l \in InLists :
       /\ Len(l.values) = 2
       /\ arg["t1"] = Not(NotIn(l))
       /\ ret["t1"].q = QOr(Alone(EqualTo(l.key, l.values[1])).q,
                            Alone(EqualTo(l.key, l.values[2])).q)
  /\ Done("t1")
  /\ _error = None
  /\ ret["t1"].q.conn = "OR"
  /\ \A i \in 1..2 : ~ret["t1"].q.kids[i].neg

\* the keys of the registered string fields
StrKeys ==
  { self.fields[i].search_key :
      i \in { j \in 1..Len(self.fields) : self.fields[j].cls = "StrField" } }

\* C13: on a string field, key!=value compiles without error to the negated
\* equality of key=value, and key!=a AND key!=b keeps the rows that
\* key NOT IN (a, b) keeps
C13_UnequalIsNotIn ==
  (pc["t1"] \in { "done", "raised" }) =>
    /\ \A kv \in { k \in KeyValues : k.key \in StrKeys /\ ~is_none(k.value) } :
         arg["t1"] = Unequal(kv.key, kv.value) =>
           /\ Done("t1")
           /\ _error = None
           /\ ret["t1"].q = QNot(Alone(EqualTo(kv.key, kv.value)).q)
    /\ \A l \in { k \in InLists : Len(k.values) = 2 /\ k.key \in StrKeys } :
         arg["t1"] = And(Unequal(l.key, l.values[1]), Unequal(l.key, l.values[2])) =>
           /\ Done("t1")
           /\ _error = None
           /\ SameRows(ret["t1"].q, Alone(NotIn(l)).q)

\* a row whose number fields hold n / 10^Places
NumRow(n) == [f \in ModelFields |-> NumValue(n)]

\* the stored numbers at and next to the ends of the windows of width
\* variance at a and at -a
Around(a, variance) ==
  { a - 1, a, a + variance - 1, a + variance,
    1 - a, 0 - a, 1 - a - variance, 0 - a - variance }

\* n lies in [a, a + variance), or in its mirror (-a - variance, -a]
InWindow(n, a, variance) == a <= n /\ n < a + variance

InMirror(n, a, variance) == 0 - a - variance < n /\ n <= 0 - a

\* C14: failcount:v keeps the rows whose failcount lies in
\* [|v|, |v| + variance) or in the mirror (-|v| - variance, -|v|] when the
\* token v has no leading dash, and only those in the mirror when it has one
C14_FuzzyHonorsSign ==
  \A t \in NumTokens :
    (arg["t1"] = Fuzzy(t.text) /\ pc["t1"] \in { "done", "raised" }) =>
      /\ Done("t1")
      /\ _error = None
      /\ LET a == t.n * Pow10(Places - t.d)
             variance == Pow10(Places - t.d)
         IN  \A n \in Around(a, variance) :
               Matches(ret["t1"].q, NumRow(n)) =
                 (\/ InMirror(n, a, variance)
                  \/ (t.text[1] # "-" /\ InWindow(n, a, variance)))

\* failcount:-5 has compiled to a predicate that keeps -5 and drops 5
C14_Witness ==
  /\ Done("t1")
  /\ arg["t1"] = Fuzzy(<< "-", "5" >>)
  /\ Matches(ret["t1"].q, NumRow(0 - 5 * Pow10(Places)))
  /\ ~Matches(ret["t1"].q, NumRow(5 * Pow10(Places)))

\* the number tokens, plain and with a unit suffix
AllNumTokens ==
  { [text |-> t.text, n |-> t.n, d |-> t.d, digits |-> t.d] : t \in NumTokens }
  \cup UnitTokens

\* C15: for every token v the num modifier accepts, plain or with a unit
\* suffix, failcount:v keeps the rows of the windows of width
\* 10^-sigdigs at |v| and at its mirror, where sigdigs is the number of
\* digits written after the decimal point of v: a stored number one
\* variance or more above |v| is dropped
C15_VarianceFromDigits ==
  \A t \in AllNumTokens :
    (arg["t1"] = Fuzzy(t.text) /\ pc["t1"] \in { "done", "raised" }) =>
      /\ Done("t1")
      /\ _error = None
      /\ LET a == t.n * Pow10(Places - t.d)
             variance == Pow10(Places - t.digits)
         IN  \A n \in Around(a, variance) \cup { a + 10 * variance, a + variance \div 2 } :
               Matches(ret["t1"].q, NumRow(n)) =
                 (\/ InMirror(n, a, variance)
                  \/ (t.text[1] # "-" /\ InWindow(n, a, variance)))

\* the predicate  mindate <= date < maxdate
DateBetween(mindate, maxdate) ==
  merge_qobjects(<< Q1("date", "gte", DateValue(Minutes(mindate))),
                    Q1("date", "lt", DateValue(Minutes(maxdate))) >>, TRUE)

\* the first instant of the year or month a token names, and of the next
FirstOf(t) == DateTime(t.y, IF t.mo = 0 THEN 1 ELSE t.mo, 1, 0)

NextOf(t) ==
  IF t.mo = 0 \/ t.mo = 12 THEN DateTime(t.y + 1, 1, 1, 0)
  ELSE DateTime(t.y, t.mo + 1, 1, 0)

\* C16: date=Y compiles to the range from the first instant of the year Y
\* to the first instant of the next year, and date=Y-M and
\* date="<month name> Y" to the range from the first instant of that month
\* to the first instant of the next month, for years and months before and
\* after the current date
C16_DateEqualityIsRange ==
  \A t \in DateTokens :
    (arg["t1"] = DateClause(t.text) /\ pc["t1"] \in { "done", "raised" }) =>
      /\ Done("t1")
      /\ _error = None
      /\ ret["t1"].q = DateBetween(FirstOf(t), NextOf(t))

\* C17: a date token written with underscores compiles without error to
\* the queryset of the quoted token with a space for each underscore
C17_UnderscoreIsSpace ==
  \A t \in UnderscoreTokens :
    (arg["t1"] = DateClause(t.text) /\ pc["t1"] \in { "done", "raised" }) =>
      /\ Done("t1")
      /\ _error = None
      /\ ret["t1"] = Alone(DateClause(Quoted(t.spaced)))

RECURSIVE NegationNormal(_)
\* no negated node of q holds anything but one lookup
NegationNormal(q) ==
  \/ q.conn = "LEAF"
  \/ /\ q.neg => (Len(q.kids) = 1 /\ q.kids[1].conn = "LEAF")
     /\ \A i \in 1..Len(q.kids) : NegationNormal(q.kids[i])

\* C18: the predicate of every query is in negation-normal form: a negated
\* node holds one comparison or one null test, never an AND or OR compound
C18_NegationNormalForm == Done("t1") => NegationNormal(ret["t1"].q)

\* NOT (testpath:foo OR failcount>3) has compiled to the AND of two negated
\* comparisons
C18_Witness ==
  /\ arg["t1"] = Not(Paren(Or(AtomList[1], AtomList[2])))
  /\ Done("t1")
  /\ _error = None
  /\ ret["t1"].q.conn = "AND"
  /\ ~ret["t1"].q.neg
  /\ Len(ret["t1"].q.kids) = 2
  /\ \A i \in 1..2 :
       /\ ret["t1"].q.kids[i].neg
       /\ Len(ret["t1"].q.kids[i].kids) = 1
       /\ ret["t1"].q.kids[i].kids[1].conn = "LEAF"

\* C19: for all bare free-text terms a and b, the query `a b` compiles to
\* the queryset of `a AND b`, whose predicate is the AND of the predicates
\* of a and of b
C19_ImplicitAndIsAnd ==
  \A a \in FreeTerms, b \in FreeTerms :
    (arg["t1"] = Juxt(a, b) /\ pc["t1"] \in { "done", "raised" }) =>
      /\ Done("t1")
      /\ _error = None
      /\ ret["t1"] = Alone(And(a, b))
      /\ ret["t1"].q = QAnd(Alone(a).q, Alone(b).q)

\* foo bar, with a generic string field registered, has compiled to the AND
\* of two contains-comparisons
C19_Witness ==
  /\ arg["t1"] = Juxt(<< "f", "o", "o" >>, << "b", "a", "r" >>)
  /\ Done("t1")
  /\ ~NoGeneric
  /\ ret["t1"].q.conn = "AND"
  /\ Len(ret["t1"].q.kids) = 2
  /\ \A i \in 1..2 : ret["t1"].q.kids[i].lookup = "icontains"

\* every key of the order items l resolves to one field of the search object
Resolves(l) == \A i \in 1..Len(l) : _get_field(self, l[i].key).raise = None

\* the order_by arguments of the order items l
OrderByArgs(l) ==
  [i \in 1..Len(l) |->
     [desc |-> l[i].desc, model_field |-> _get_field(self, l[i].key).field.model_field]]

\* the search string compiles without an error
Compiles(searchstr) ==
  _get_qobject_str(self, now, searchstr, Attrs(None, << >>, NOOP)).st._error = None

\* C20: for a query that compiles without error, followed by ORDER BY and
\* order items whose keys resolve, the order_by list holds one entry per
\* item, in the order written, each the model field of the resolved field
\* with the descending mark of its leading `-`; the predicate is the
\* predicate of the query without the clause, and no filter with no query
C20_OrderByList ==
  \A b \in OrderBases, l \in OrderLists :
    (/\ arg["t1"] = Ordered(b, l)
     /\ pc["t1"] \in { "done", "raised" }
     /\ Resolves(l)
     /\ Compiles(b)) =>
      /\ Done("t1")
      /\ _error = None
      /\ ret["t1"].order_by = OrderByArgs(l)
      /\ ret["t1"].q = (IF b = << >> THEN NOOP ELSE Alone(b).q)

\* title:foo ORDER BY -date, title has compiled to the predicate of
\* title:foo, ordered by date descending and then title ascending
C20_Witness ==
  /\ arg["t1"] = << "t", "i", "t", "l", "e", ":", "f", "o", "o", " ",
                    "O", "R", "D", "E", "R", " ", "B", "Y", " ",
                    "-", "d", "a", "t", "e", ",", " ", "t", "i", "t", "l", "e" >>
  /\ Done("t1")
  /\ ret["t1"].order_by = << [desc |-> TRUE, model_field |-> "date"],
                             [desc |-> FALSE, model_field |-> "title"] >>
  /\ ret["t1"].q = Q1("title", "icontains", StrValue(<< "f", "o", "o" >>))

\* the index of the first order item of l whose key does not resolve
FirstUnresolved(l) ==
  CHOOSE i \in 1..Len(l) :
    /\ _get_field(self, l[i].key).raise # None
    /\ \A j \in 1..(i - 1) : _get_field(self, l[j].key).raise = None

\* C21: for a query that compiles without error, followed by ORDER BY and
\* order items one of which names an unknown field, the call returns the
\* NORESULTS predicate with the error recorded, and the order_by list holds
\* the items written before the failing one and none written after it
C21_UnknownOrderItemAborts ==
  \A b \in OrderBases, l \in UnknownOrderLists :
    (/\ arg["t1"] = Ordered(b, l)
     /\ pc["t1"] \in { "done", "raised" }
     /\ Compiles(b)) =>
      /\ Done("t1")
      /\ _error # None
      /\ ret["t1"].q = NORESULTS
      /\ ret["t1"].order_by = OrderByArgs(SubSeq(l, 1, FirstUnresolved(l) - 1))

\* foo AND (bar
UnclosedParen == << "f", "o", "o", " ", "A", "N", "D", " ", "(", "b", "a", "r" >>

\* C22: for every string the grammar rejects, the call returns the NORESULTS
\* predicate and records a parse error holding the 0-based offset of the
\* failure and the one character of the string at that offset; for
\* foo AND (bar the offset is the end of the string
C22_ParseErrorPosition ==
  \A s \in Malformed :
    (arg["t1"] = s /\ pc["t1"] \in { "done", "raised" }) =>
      /\ Done("t1")
      /\ ret["t1"].q = NORESULTS
      /\ _error.kind = "ParseException"
      /\ _error.pos \in 0..Len(s)
      /\ _error.pos < Len(s) => _error.arg = << s[_error.pos + 1] >>
      /\ s = UnclosedParen => _error.pos = Len(s)

\* the search string compiles with no exception and no error recorded
CompilesClean(searchstr) ==
  LET r == _get_qobject_str(self, now, searchstr, Attrs(None, << >>, NOOP))
  IN  r.raise = None /\ r.st._error = None

\* p keeps exactly the rows q drops
Complement(p, q) == \A row \in Rows : Matches(p, row) = ~Matches(q, row)

\* C23: for every comparison c the field accepts (every field class, every
\* operator, : on a number field included), -c and NOT c keep exactly the
\* rows c drops, and NOT -c keeps the rows c keeps
C23_LeafNegationIsComplement ==
  \A c \in LeafClauses :
    (pc["t1"] \in { "done", "raised" } /\ CompilesClean(c)) =>
      /\ arg["t1"] \in { Dash(c), Not(c) } =>
           /\ Done("t1")
           /\ _error = None
           /\ Complement(ret["t1"].q, Alone(c).q)
      /\ arg["t1"] = Not(Dash(c)) =>
           /\ Done("t1")
           /\ _error = None
           /\ SameRows(ret["t1"].q, Alone(c).q)

RECURSIVE FieldsOf(_)
\* the model fields the lookups of q are on
FieldsOf(q) ==
  IF q.conn = "LEAF" THEN { q.field }
  ELSE UNION { FieldsOf(q.kids[i]) : i \in 1..Len(q.kids) }

\* the :-comparisons of the term on the generic fields of one class
Comparisons(cls, term) ==
  [i \in 1..Len(GenericFields(self, cls)) |->
     get_subquery(GenericFields(self, cls)[i], term, << ":" >>, FALSE, now).q]

\* the :-comparisons a free-text term is searched with: the generic string
\* fields, then the generic number fields if the term is a number
TermComparisons(term) ==
  Comparisons("StrField", term)
    \o (IF is_number(term) THEN Comparisons("NumField", term) ELSE << >>)

\* C24: a free-text term compiles to the OR of one :-comparison per generic
\* string field and, if and only if the term is a number, one
\* contains-comparison of the term as written per generic number field, on
\* no other field; under NOT the predicate is an AND that keeps exactly the
\* rows the term alone drops
C24_FreeTextOverGenericFields ==
  \A t \in SearchTerms :
    /\ (arg["t1"] = t /\ pc["t1"] \in { "done", "raised" }) =>
         /\ Done("t1")
         /\ _error = None
         /\ ret["t1"].q = (IF TermComparisons(t) = << >> THEN NORESULTS
                           ELSE merge_qobjects(TermComparisons(t), FALSE))
    /\ (arg["t1"] = Not(t) /\ pc["t1"] \in { "done", "raised" }
          /\ TermComparisons(t) # << >>) =>
         /\ Done("t1")
         /\ _error = None
         /\ ret["t1"].q.conn = "AND"
         /\ FieldsOf(ret["t1"].q) = FieldsOf(Alone(t).q)
         /\ Complement(ret["t1"].q, Alone(t).q)

\* one bound of a date comparison, negated under exclusion
DateBound(lookup, dt, exclude) ==
  IF exclude THEN QNot(Q1("date", lookup, DateValue(Minutes(dt))))
  ELSE Q1("date", lookup, DateValue(Minutes(dt)))

\* the predicate of date op value for a value that names the range r
DateComparison(op, r, exclude) ==
  IF op \in { << ">" >>, << ">", "=" >> } THEN DateBound("gte", r.min, exclude)
  ELSE IF op \in { << "<" >>, << "<", "=" >> } THEN DateBound("lte", r.min, exclude)
  ELSE IF exclude THEN QOr(DateBound("gte", r.min, TRUE), DateBound("lt", r.max, TRUE))
  ELSE QAnd(DateBound("gte", r.min, FALSE), DateBound("lt", r.max, FALSE))

\* C25: on a date field > and >= compile to  date >= min  and < and <= to
\* date <= min, min the start of the range the value names; = compiles to
\* date >= min AND date < max; under NOT each bound is negated and the two
\* bounds of = are joined with OR
C25_DateOperators ==
  \A op \in DateOperators, r \in DateRanges :
    /\ (arg["t1"] = DateOp(op, r.text) /\ pc["t1"] \in { "done", "raised" }) =>
         /\ Done("t1")
         /\ _error = None
         /\ ret["t1"].q = DateComparison(op, r, FALSE)
    /\ (arg["t1"] = Not(DateOp(op, r.text)) /\ pc["t1"] \in { "done", "raised" }) =>
         /\ Done("t1")
         /\ _error = None
         /\ ret["t1"].q = DateComparison(op, r, TRUE)

\* date<"last week" has compiled to  date <= 2026-10-25 00:00, the start of
\* that week
C25_Witness ==
  /\ arg["t1"] = DateOp(<< "<" >>, << "\"", "l", "a", "s", "t", " ", "w", "e", "e", "k", "\"" >>)
  /\ Done("t1")
  /\ ret["t1"].q = Q1("date", "lte", DateValue(Minutes(DateTime(2026, 10, 25, 0))))

\* self._error, self._order_by and the queryset returned after
\* get_queryset(queryset, searchstr) on a search object just constructed
NewObjectAttrs(r) ==
  [_error |-> r.st._error, _order_by |-> r.st._order_by,
   ret |-> Queryset(TRUE, r.q, r.st._order_by)]

OnNewObject(searchstr) ==
  IF HasSearch(searchstr)
    THEN NewObjectAttrs(_get_qobject_str(self, now, searchstr, Attrs(None, << >>, NOOP)))
    ELSE [_error |-> None, _order_by |-> << >>, ret |-> Queryset(FALSE, NOOP, << >>)]

\* the search object and the return of thread t are as in f
AgreesWith(t, f) ==
  /\ _error = f._error
  /\ _order_by = f._order_by
  /\ Done(t) => ret[t] = f.ret

\* C26: after every call of a sequence of calls on one search object, the
\* recorded error and the order_by list are those the call leaves on an
\* object just constructed, and the queryset returned is the one such an
\* object returns
C26_CallsAreIndependent ==
  (pc["t1"] \in { "done", "raised" }) => AgreesWith("t1", OnNewObject(arg["t1"]))

\* the second call on an object with a generic field, a blank search, has
\* returned: the call before it ended in an error (it left NORESULTS in
\* _qobject), and no error and no ordering is left
C26_Witness ==
  /\ calls["t1"] = 2
  /\ Done("t1")
  /\ arg["t1"] = << >>
  /\ ~NoGeneric
  /\ _qobject = NORESULTS
  /\ _error = None
  /\ _order_by = << >>
  /\ ret["t1"].order_by = << >>

\* the call that thread t is about to make has a blank search string
BlankCall(t) == pc[t] = "idle" /\ \A i \in 1..Len(arg[t]) : arg[t][i] = " "

\* C27: a call of get_queryset with an empty or whitespace-only search
\* string returns the queryset it was given, with no filter and no ordering,
\* leaves no error and compiles nothing (the Q object of the last search
\* stays as it was); no call changes the fields of the search object
C27_BlankSearchIsUnfiltered ==
  [][/\ self' = self
     /\ BlankCall("t1") =>
          /\ pc'["t1"] = "done"
          /\ ret'["t1"] = Queryset(FALSE, NOOP, << >>)
          /\ _error' = None
          /\ _order_by' = << >>
          /\ _qobject' = _qobject]_vars

\* the call with a search string of two spaces has returned the queryset
\* unfiltered and unordered
C27_Witness ==
  /\ arg["t1"] = << " ", " " >>
  /\ Done("t1")
  /\ _searchstr = << " ", " " >>
  /\ ret["t1"] = Queryset(FALSE, NOOP, << >>)
  /\ _error = None

\* C28: a key that equals a registered search key, letter case aside,
\* resolves to that field with no UnknownField or AmbiguousField error, also
\* when other registered keys hold it; with partial matching disabled every
\* key that equals no registered search key ends in an UnknownField error
\* with NORESULTS
C28_ExactMatchWins ==
  \A key \in LookupKeys :
    (arg["t1"] = KeyClause(key) /\ pc["t1"] \in { "done", "raised" }) =>
      /\ \A i \in Equal(key) :
           /\ Done("t1")
           /\ _error = None
           /\ ret["t1"].q = Q1(self.fields[i].model_field, "icontains", StrValue(<< "x" >>))
      /\ (~self.allow_partial_fieldnames /\ Equal(key) = { }) =>
           /\ Done("t1")
           /\ _error = SearchError("UnknownField", key)
           /\ ret["t1"].q = NORESULTS

\* path:x, with the keys path and testpath registered and partial matching
\* enabled, has compiled to a comparison on the field of the key path
C28_Witness ==
  /\ arg["t1"] = KeyClause(<< "p", "a", "t", "h" >>)
  /\ Done("t1")
  /\ self.allow_partial_fieldnames
  /\ Cardinality(Holding(<< "p", "a", "t", "h" >>)) = 2
  /\ _error = None
  /\ ret["t1"].q = Q1("filepath", "icontains", StrValue(<< "x" >>))

\* the years the first days of months are looked for in
MonthYears == 2020..2030

\* the first instant of the month after y-mo
MonthAfter(y, mo) ==
  IF mo = 12 THEN DateTime(y + 1, 1, 1, 0) ELSE DateTime(y, mo + 1, 1, 0)

\* C29: for every date value of month granularity, date=value compiles to
\* the range from the first instant of a month that is not after the
\* current time to the first instant of the month after it
C29_MonthRangeNotInFuture ==
  \A t \in MonthTokens :
    (arg["t1"] = DateClause(Quoted(t)) /\ pc["t1"] \in { "done", "raised" }) =>
      /\ Done("t1")
      /\ _error = None
      /\ \E y \in MonthYears, mo \in 1..12 :
           /\ ret["t1"].q = DateBetween(DateTime(y, mo, 1, 0), MonthAfter(y, mo))
           /\ Minutes(DateTime(y, mo, 1, 0)) <= Minutes(now)

\* field__icontains = term for the generic string fields, in registry order
ContainsTerm(term) ==
  [i \in 1..Len(GenericFields(self, "StrField")) |->
     Q1(GenericFields(self, "StrField")[i].model_field, "icontains", StrValue(term))]

\* C30: with a generic string field registered, the free-text term none or
\* null, in any letter case, compiles to the OR of one contains-comparison
\* on the term per generic string field, and to no null test
C30_NoneTermIsText ==
  \A t \in NoneTerms :
    (arg["t1"] = t /\ pc["t1"] \in { "done", "raised" } /\ ~NoGeneric) =>
      /\ Done("t1")
      /\ _error = None
      /\ ret["t1"].q = merge_qobjects(ContainsTerm(t), FALSE)
====
